---- MODULE Spec2Model ----
(***************************************************************************)
(* Reconciliation and classification pipeline of src/dashboard.py:         *)
(* load_hoja1 (roster), transform_consulta1 (normalisation, origin and     *)
(* region, hierarchy join, status_calc, calendar fields), build_sin_venta  *)
(* (anti-join), the KPI helpers, and main's date window, selectors and     *)
(* displayed counts.                                                       *)
(*                                                                         *)
(* Text.  A text value is a sequence of symbols.  A symbol is either the   *)
(* whitespace symbol SP or a solid chunk of text with no whitespace at its *)
(* ends ("Entregado", "ANA", ...).  str.strip() therefore acts exactly as  *)
(* Strip below.  The pandas null (None / np.nan) is the reserved value NaN, *)
(* a symbol no input text contains.                                        *)
(*                                                                         *)
(* Tables.  A DataFrame is a sequence of records, one per row, in row      *)
(* order.  Column names with spaces get an underscore ("Fecha creacion" is *)
(* Fecha_creacion, "Jefe directo" is Jefe_directo) and lose their accents  *)
(* ("Año Semana" is Anio_Semana).  A row has exactly the columns of its    *)
(* table, so a table can lack a column.                                    *)
(***************************************************************************)
EXTENDS Integers, Sequences, FiniteSets, TLC

VARIABLES
    hoja_raw,       \* rows pd.read_sql returns for the roster query of load_hoja1
    consulta_raw,   \* rows pd.read_sql returns for load_consulta1
    ref_date,       \* reference date handed to build_sin_venta
    hoja,           \* result of load_hoja1
    consulta_base,  \* result of transform_consulta1
    sinventa,       \* result of build_sin_venta
    filtros,        \* the sidebar inputs of main's last run
    vista,          \* the filtered tables of main's last run
    kpi,            \* the numbers main's last run displays
    base_data,      \* st.session_state["base_data"]
    cache,          \* the st.cache_data entries of load_hoja1 and load_consulta1
    origen,         \* the query results the load that filled base_data read
    bo_in,          \* series and window handed to parse_backoffice_datetime
    bo_out,         \* result of parse_backoffice_datetime
    pc              \* position in the pipeline

vars == <<hoja_raw, consulta_raw, ref_date, hoja, consulta_base, sinventa,
          filtros, vista, kpi, base_data, cache, origen, bo_in, bo_out, pc>>

\* the session and the Back Office parser, untouched by the pipeline steps
otros == <<base_data, cache, origen, bo_in, bo_out>>

----------------------------------------------------------------------------
(* Text values *)

SP == " "
NaN == <<"<NA>">>
EMPTY == << >>

T(chunk) == <<chunk>>

EXCLUDED_VENDOR == T("ABASTECEDORA Y SUMINISTROS ORTEGA/ISABEL VALDEZ JIMENEZ")
ENCUBADORA == T("ENCUBADORA")

EN_TRANSITO == T("En Transito")
ENTREGADO == T("Entregado")

RECURSIVE LStrip(_)
LStrip(s) == IF s = EMPTY THEN s
             ELSE IF Head(s) = SP THEN LStrip(Tail(s)) ELSE s

RECURSIVE RStrip(_)
RStrip(s) == IF s = EMPTY THEN s
             ELSE IF s[Len(s)] = SP THEN RStrip(SubSeq(s, 1, Len(s) - 1)) ELSE s

\* str.strip()
Strip(s) == RStrip(LStrip(s))

\* astype(str): a null becomes the text "None" (np.nan becomes "nan")
AsStr(v) == IF v = NaN THEN T("None") ELSE v

\* .replace({"nan": np.nan, "None": np.nan}): whole-value match only
ReplaceNan(v) == IF v \in {T("nan"), T("None")} THEN NaN ELSE v

\* df[col].astype(str).str.strip() followed by the replace
NormText(v) == ReplaceNan(Strip(AsStr(v)))

\* str.upper() of one chunk
UpperSym(c) ==
    CASE c = "Abastecedora y Suministros Ortega/Isabel Valdez Jimenez"
           -> "ABASTECEDORA Y SUMINISTROS ORTEGA/ISABEL VALDEZ JIMENEZ"
      [] c = "ana" -> "ANA"
      [] c = "luis" -> "LUIS"
      [] c = "nan" -> "NAN"
      [] c = "None" -> "NONE"
      [] OTHER -> c

\* Series.str.upper(): a null stays null
StrUpper(v) == IF v = NaN THEN NaN ELSE [i \in 1..Len(v) |-> UpperSym(v[i])]

\* pd.isna
IsNa(v) == v = NaN

\* rows of df at the positions in I, in row order (boolean-mask selection)
RowsAt(df, I) ==
    LET F[k \in 0..Len(df)] ==
            IF k = 0 THEN << >>
            ELSE IF k \in I THEN Append(F[k - 1], df[k]) ELSE F[k - 1]
    IN F[Len(df)]

Rows(df) == {df[i] : i \in 1..Len(df)}

\* the columns of a roster row (the row without its index label)
Cols(e) == [NombreCompleto |-> e.NombreCompleto, JefeDirecto |-> e.JefeDirecto,
            Puesto |-> e.Puesto, Coordinador |-> e.Coordinador]

----------------------------------------------------------------------------
(* Dates *)

\* a timestamp is [y, m, d, h]; NaT is the timestamp no text parses to
NaT == [y |-> 0, m |-> 0, d |-> 0, h |-> 0]

IsLeap(y) == (y % 4 = 0 /\ y % 100 # 0) \/ y % 400 = 0

DaysInMonth(y, m) ==
    IF m = 2 THEN (IF IsLeap(y) THEN 29 ELSE 28)
    ELSE IF m \in {4, 6, 9, 11} THEN 30 ELSE 31

ValidDate(y, m, d) == y >= 1 /\ m \in 1..12 /\ d >= 1 /\ d <= DaysInMonth(y, m)

\* pd.to_datetime(text, errors="coerce", dayfirst=True) of the text "a/b/y":
\* day a of month b when that is a date, else month a day b, else NaT
to_datetime_dayfirst(v) ==
    IF v.h \notin 0..23 THEN NaT
    ELSE IF ValidDate(v.y, v.b, v.a) THEN [y |-> v.y, m |-> v.b, d |-> v.a, h |-> v.h]
    ELSE IF ValidDate(v.y, v.a, v.b) THEN [y |-> v.y, m |-> v.a, d |-> v.b, h |-> v.h]
    ELSE NaT

\* Series.dt.date: the calendar date of a timestamp, NaT for NaT
dt_date(ts) == IF ts = NaT THEN NaT ELSE [y |-> ts.y, m |-> ts.m, d |-> ts.d]

\* day of the year, 1 for 1 January
DayOfYear(y, m, d) ==
    LET F[k \in 0..12] == IF k = 0 THEN 0 ELSE F[k - 1] + DaysInMonth(y, k)
    IN F[m - 1] + d

\* days from 0001-01-01 (day 1, a Monday) in the proleptic Gregorian calendar
Ordinal(y, m, d) ==
    LET p == y - 1
    IN 365 * p + (p \div 4) - (p \div 100) + (p \div 400) + DayOfYear(y, m, d)

\* Timestamp.weekday(): Monday is 0
Weekday(y, m, d) == (Ordinal(y, m, d) - 1) % 7

\* number of ISO weeks of an ISO year: 53 when 1 January is a Thursday, or a
\* Wednesday in a leap year
WeeksInYear(y) ==
    LET w == Weekday(y, 1, 1)
    IN IF w = 3 \/ (w = 2 /\ IsLeap(y)) THEN 53 ELSE 52

\* isocalendar that keeps the calendar year of the date
isocalendar_anio_calendario(y, m, d) ==
    LET w == (DayOfYear(y, m, d) - (Weekday(y, m, d) + 1) + 10) \div 7
    IN IF w < 1 THEN [year |-> y, week |-> WeeksInYear(y - 1)]
       ELSE IF w > WeeksInYear(y) THEN [year |-> y, week |-> 1]
       ELSE [year |-> y, week |-> w]

\* Series.dt.isocalendar(): ISO year and ISO week of a date
isocalendar(y, m, d) ==
    LET w == (DayOfYear(y, m, d) - (Weekday(y, m, d) + 1) + 10) \div 7
    IN IF w < 1 THEN [year |-> y - 1, week |-> WeeksInYear(y - 1)]
       ELSE IF w > WeeksInYear(y) THEN [year |-> y + 1, week |-> 1]
       ELSE [year |-> y, week |-> w]

\* strftime("%B")
MonthName(m) ==
    <<"January", "February", "March", "April", "May", "June", "July",
      "August", "September", "October", "November", "December">>[m]

\* strftime("%A")
DayName(w) ==
    <<"Monday", "Tuesday", "Wednesday", "Thursday", "Friday", "Saturday",
      "Sunday">>[w + 1]

\* str(n).zfill(2), also the "%m" of strftime
ZFill2(n) == IF n < 10 THEN <<"0", ToString(n)>> ELSE <<ToString(n)>>

\* astype(str) of a nullable integer: the null becomes the four-character
\* text <NA>, a chunk of its own (NaN is the null itself, not this text)
NA_TEXT == "str(<NA>)"

----------------------------------------------------------------------------
(* load_hoja1 *)

PUESTOS_SQL == {T("ASESOR TELEFONICO"), T("ASESOR TELEFONICO 7500"),
                T("EJECUTIVO TELEFONICO 6500 AM"), T("EJECUTIVO TELEFONICO 6500 PM"),
                T("SUPERVISOR DE CONTACT CENTER")}

\* ResolveJefe without the replacement of the empty text
ResolveJefe_sin_reemplazo(v) ==
    LET filled == IF IsNa(v) THEN EMPTY ELSE v
    IN Strip(filled)

\* df["JefeDirecto"].fillna("").str.strip(), then .replace("", "ENCUBADORA")
ResolveJefe(v) ==
    LET filled == IF IsNa(v) THEN EMPTY ELSE v
        stripped == Strip(filled)
    IN IF stripped = EMPTY THEN ENCUBADORA ELSE stripped

\* one roster row after the text_cols loop and the JefeDirecto / Coordinador
\* assignments; index is the DataFrame index label (the row's position in the
\* query result, kept by the boolean-mask selection)
hoja_row(e, i) ==
    LET jefe == ResolveJefe(NormText(e.JefeDirecto))
    IN [index |-> i,
        NombreCompleto |-> NormText(e.NombreCompleto),
        JefeDirecto |-> jefe,
        Puesto |-> NormText(e.Puesto),
        Coordinador |-> jefe]

\* the vendor filter without str.upper()
NotExcluded_sin_upper(name) == name # EXCLUDED_VENDOR

\* df[df["NombreCompleto"].str.upper() != EXCLUDED_VENDOR]
NotExcluded(name) == StrUpper(name) # EXCLUDED_VENDOR

load_hoja1(raw) ==
    LET df == [i \in 1..Len(raw) |-> hoja_row(raw[i], i)]
    IN RowsAt(df, {i \in 1..Len(df) : NotExcluded(df[i].NombreCompleto)})

----------------------------------------------------------------------------
(* transform_consulta1 *)

PUESTOS_JOIN == {T("ASESOR TELEFONICO 7500"), T("EJECUTIVO TELEFONICO 6500 AM")}

\* drop_duplicates() without subset: only wholly equal rows collapse
drop_duplicates_sin_subset(df) ==
    RowsAt(df, {i \in 1..Len(df) :
                  \A j \in 1..(i - 1) : Cols(df[j]) # Cols(df[i])})

\* the role-restricted roster with the sentinel-supervisor rows left in
empleados_join_con_encubadora(h) ==
    LET byPuesto == RowsAt(h, {i \in 1..Len(h) : h[i].Puesto \in PUESTOS_JOIN})
        byVendor == RowsAt(byPuesto, {i \in 1..Len(byPuesto) :
                                        NotExcluded(byPuesto[i].NombreCompleto)})
    IN RowsAt(byVendor, {i \in 1..Len(byVendor) :
                  \A j \in 1..(i - 1) :
                      byVendor[j].NombreCompleto # byVendor[i].NombreCompleto})

\* drop_duplicates(subset=["NombreCompleto"]): the first row of each name stays
drop_duplicates_NombreCompleto(df) ==
    RowsAt(df, {i \in 1..Len(df) :
                  \A j \in 1..(i - 1) : df[j].NombreCompleto # df[i].NombreCompleto})

\* the roster of the join without the restriction to the two roles
empleados_join_todos_los_puestos(h) ==
    LET byJefe == RowsAt(h, {i \in 1..Len(h) : h[i].JefeDirecto # ENCUBADORA})
        byVendor == RowsAt(byJefe, {i \in 1..Len(byJefe) :
                                      NotExcluded(byJefe[i].NombreCompleto)})
    IN drop_duplicates_NombreCompleto(byVendor)

\* the role-restricted roster: Puesto.isin(...), JefeDirecto != "ENCUBADORA",
\* not the excluded vendor, deduplicated by NombreCompleto
empleados_join(h) ==
    LET byPuesto == RowsAt(h, {i \in 1..Len(h) : h[i].Puesto \in PUESTOS_JOIN})
        byJefe == RowsAt(byPuesto, {i \in 1..Len(byPuesto) :
                                      byPuesto[i].JefeDirecto # ENCUBADORA})
        byVendor == RowsAt(byJefe, {i \in 1..Len(byJefe) :
                                      NotExcluded(byJefe[i].NombreCompleto)})
    IN drop_duplicates_NombreCompleto(byVendor)

\* status_calc without 'Back Office' among the pending statuses
status_calc_sin_back_office(row) ==
    LET est == row.Estatus
        venta == row.Venta
    IN IF est \in {T("En entrega"), T("En preparacion"), T("Solicitado")}
       THEN EN_TRANSITO
       ELSE LET venta_vacia == IsNa(venta) \/ venta = EMPTY
            IN IF est = T("Entregado") /\ venta_vacia THEN EN_TRANSITO
               ELSE ENTREGADO

\* status_calc whose second rule forgets to test the status
status_calc_solo_venta(row) ==
    LET est == row.Estatus
        venta == row.Venta
    IN IF est \in {T("En entrega"), T("En preparacion"), T("Solicitado"), T("Back Office")}
       THEN EN_TRANSITO
       ELSE LET venta_vacia == IsNa(venta) \/ venta = EMPTY
            IN IF venta_vacia THEN EN_TRANSITO
               ELSE ENTREGADO

\* status_calc that also reads the joined supervisor
status_calc_por_jefe(row) ==
    LET est == row.Estatus
        venta == row.Venta
    IN IF est \in {T("En entrega"), T("En preparacion"), T("Solicitado"), T("Back Office")}
       THEN EN_TRANSITO
       ELSE LET venta_vacia == IsNa(venta) \/ venta = EMPTY
            IN IF est = T("Entregado") /\ (venta_vacia \/ IsNa(row.Jefe_directo))
               THEN EN_TRANSITO
               ELSE ENTREGADO

\* status_calc that hands an unlisted status through unchanged
status_calc_passthrough(row) ==
    LET est == row.Estatus
        venta == row.Venta
    IN IF est \in {T("En entrega"), T("En preparacion"), T("Solicitado"), T("Back Office")}
       THEN EN_TRANSITO
       ELSE LET venta_vacia == IsNa(venta) \/ venta = EMPTY
            IN IF est = T("Entregado") /\ venta_vacia THEN EN_TRANSITO
               ELSE IF est = T("Entregado") THEN ENTREGADO
               ELSE est

\* status_calc whose last return is 'En Transito'
status_calc_defecto_transito(row) ==
    LET est == row.Estatus
        venta == row.Venta
    IN IF est \in {T("En entrega"), T("En preparacion"), T("Solicitado"), T("Back Office")}
       THEN EN_TRANSITO
       ELSE LET venta_vacia == IsNa(venta) \/ venta = EMPTY
            IN IF est = T("Entregado") /\ venta_vacia THEN EN_TRANSITO
               ELSE IF est = T("Entregado") THEN ENTREGADO
               ELSE EN_TRANSITO

\* row.get(col): the value of the column, None when the row has no such column
Get(row, col) == IF col \in DOMAIN row THEN row[col] ELSE NaN

\* row-wise canonical status
status_calc(row) ==
    LET est == Get(row, "Estatus")
        venta == Get(row, "Venta")
    IN IF est \in {T("En entrega"), T("En preparacion"), T("Solicitado"), T("Back Office")}
       THEN EN_TRANSITO
       ELSE LET venta_vacia == IsNa(venta) \/ venta = EMPTY
            IN IF est = T("Entregado") /\ venta_vacia THEN EN_TRANSITO
               ELSE ENTREGADO

\* the columns of the normalisation loop
TEXT_COLS == {"Centro", "Estatus", "Back_Office", "Vendedor", "Cliente"}

\* the column normalisation of one raw row: the five text columns, where
\* present, are str-converted, stripped and null-replaced; Venta is only
\* null-replaced; every other column is left as it is
consulta_norm(r) ==
    [c \in DOMAIN r |->
        IF c \in TEXT_COLS THEN NormText(r[c])
        ELSE IF c = "Venta" THEN ReplaceNan(r[c])
        ELSE r[c]]

CC2_MARKER == "EXP ATT C CENTER 2"
JUAREZ_MARKER == "EXP ATT C CENTER JUAREZ"

\* the markers and region tokens that occur inside a chunk as substrings
Inside(chunk) ==
    CASE chunk = "EXP ATT C CENTER 2" -> {CC2_MARKER}
      [] chunk = "EXP ATT C CENTER 20" -> {CC2_MARKER}
      [] chunk = "EXP ATT C CENTER JUAREZ" -> {JUAREZ_MARKER}
      [] chunk = "EXP ATT C CENTER 2 GDL" -> {CC2_MARKER, "GDL"}
      [] chunk = "EXP ATT C CENTER JUAREZ/EXP ATT C CENTER 2"
           -> {CC2_MARKER, JUAREZ_MARKER}
      [] chunk = "EXP ATT C CENTER MTY" -> {"MTY"}
      [] chunk = "EXP ATT C CENTER PUE MEX" -> {"PUE", "MEX"}
      [] OTHER -> {chunk}

\* Series.str.contains(pat, na=False) and Python's "pat in c"
Contains(v, pat) == v # NaN /\ \E i \in 1..Len(v) : pat \in Inside(v[i])

\* "Centro Original": null, then "CC2" where the centre 2 marker occurs, then
\* "CC JV" where the Juarez marker occurs (the later assignment stays)
centro_original(c) ==
    LET mask_cc2 == Contains(c, CC2_MARKER)
        mask_juarez == Contains(c, JUAREZ_MARKER)
        paso1 == IF mask_cc2 THEN T("CC2") ELSE NaN
    IN IF mask_juarez THEN T("CC JV") ELSE paso1

region_from_centro(c) ==
    IF c = NaN THEN NaN
    ELSE IF Contains(c, "GDL") THEN T("GDL")
    ELSE IF Contains(c, "MEX") THEN T("MEX")
    ELSE IF Contains(c, "MTY") THEN T("MTY")
    ELSE IF Contains(c, "PUE") THEN T("PUE")
    ELSE IF Contains(c, "TIJ") THEN T("TIJ")
    ELSE IF Contains(c, "VER") THEN T("VER")
    ELSE NaN

\* the two columns derived from Centro
consulta_centro(r) ==
    [Centro_Original |-> centro_original(r.Centro),
     Region |-> region_from_centro(r.Centro)] @@ r

\* the merge with how="inner": a row without a matching roster row is dropped
merge_hoja_inner(df, hj) ==
    LET matches(r) == RowsAt(hj, {j \in 1..Len(hj) : hj[j].NombreCompleto = r.Vendedor})
        joined(r, e) == [Jefe_directo |-> e.JefeDirecto,
                         Coordinador |-> e.Coordinador] @@ r
        out(r) == LET ms == matches(r)
                  IN [k \in 1..Len(ms) |-> joined(r, ms[k])]
        F[k \in 0..Len(df)] == IF k = 0 THEN << >> ELSE F[k - 1] \o out(df[k])
    IN F[Len(df)]

\* df.merge(hoja_join, how="left", left_on="Vendedor", right_on="Nombre Completo"):
\* one output row per matching roster row, one row with null roster columns when
\* none matches; null keys match each other
merge_hoja(df, hj) ==
    LET matches(r) == RowsAt(hj, {j \in 1..Len(hj) : hj[j].NombreCompleto = r.Vendedor})
        joined(r, e) == [Jefe_directo |-> e.JefeDirecto,
                         Coordinador |-> e.Coordinador] @@ r
        none == [JefeDirecto |-> NaN, Coordinador |-> NaN]
        out(r) == LET ms == matches(r)
                  IN IF ms = << >> THEN <<joined(r, none)>>
                     ELSE [k \in 1..Len(ms) |-> joined(r, ms[k])]
        F[k \in 0..Len(df)] == IF k = 0 THEN << >> ELSE F[k - 1] \o out(df[k])
    IN F[Len(df)]

\* iso["year"].astype(str) + "-W" + iso["week"].astype(str).str.zfill(2)
anio_semana(fc) ==
    IF fc = NaT THEN <<NA_TEXT, "-W", NA_TEXT>>
    ELSE LET iso == isocalendar(fc.y, fc.m, fc.d)
         IN <<ToString(iso.year), "-W">> \o ZFill2(iso.week)

\* the null of a numeric column (NaN among numbers)
NA_NUM == -1

\* the calendar fields of the parsed creation timestamp
calendar_fields(fc) ==
    [Fecha_creacion |-> fc,
     Fecha |-> dt_date(fc),
     Hora |-> IF fc = NaT THEN NA_NUM ELSE fc.h,
     Anio |-> IF fc = NaT THEN NA_NUM ELSE fc.y,
     MesNum |-> IF fc = NaT THEN NA_NUM ELSE fc.m,
     Mes |-> IF fc = NaT THEN NaN ELSE T(MonthName(fc.m)),
     AnioMes |-> IF fc = NaT THEN NaN ELSE <<ToString(fc.y), "-">> \o ZFill2(fc.m),
     Dia |-> IF fc = NaT THEN NA_NUM ELSE fc.d,
     Nombre_Dia |-> IF fc = NaT THEN NaN
                    ELSE T(DayName(Weekday(fc.y, fc.m, fc.d))),
     Anio_Semana |-> anio_semana(fc)]

\* consulta_row that leaves the joined "Jefe directo" as the merge gave it
consulta_row_sin_resolver(r) ==
    LET fc == to_datetime_dayfirst(r.Fecha_creacion)
        fcon == to_datetime_dayfirst(r.Fecha_contacto)
    IN [Status |-> status_calc(r),
        Fecha_contacto |-> fcon,
        MesContactoNum |-> IF fcon = NaT THEN NA_NUM ELSE fcon.m]
       @@ calendar_fields(fc) @@ r

\* the columns added after the merge: Status, the parsed creation timestamp and
\* its calendar fields, the parsed contact timestamp and its month, and the
\* resolved "Jefe directo"
consulta_row(r) ==
    LET fc == to_datetime_dayfirst(r.Fecha_creacion)
        fcon == to_datetime_dayfirst(r.Fecha_contacto)
    IN [Jefe_directo |-> ResolveJefe(r.Jefe_directo),
        Status |-> status_calc(r),
        Fecha_contacto |-> fcon,
        MesContactoNum |-> IF fcon = NaT THEN NA_NUM ELSE fcon.m]
       @@ calendar_fields(fc) @@ r

\* the columns whose absence raises KeyError: Centro (str.contains), Vendedor
\* (the merge key), "Fecha creacion" and "Fecha contacto" (to_datetime)
REQUIRED_COLS == {"Centro", "Vendedor", "Fecha_creacion", "Fecha_contacto"}

\* df.columns; the query names every column, so a table without rows has them
ALL_COLS == {"Folio", "Centro", "Estatus", "Back_Office", "Vendedor", "Cliente",
             "Venta", "Fecha_creacion", "Fecha_contacto"}

Columns(df) == IF df = << >> THEN ALL_COLS ELSE DOMAIN df[1]

\* whether transform_consulta1 raises KeyError on df_raw
RaisesKeyError(df_raw) == ~(REQUIRED_COLS \subseteq Columns(df_raw))

transform_consulta1(df_raw, h) ==
    LET norm == [i \in 1..Len(df_raw) |-> consulta_norm(df_raw[i])]
        df == IF "Vendedor" \in Columns(df_raw)
              THEN RowsAt(norm, {i \in 1..Len(norm) : NotExcluded(norm[i].Vendedor)})
              ELSE norm
        centro == [i \in 1..Len(df) |-> consulta_centro(df[i])]
        merged == merge_hoja(centro, empleados_join(h))
    IN [i \in 1..Len(merged) |-> consulta_row(merged[i])]

----------------------------------------------------------------------------
(* build_sin_venta *)

\* valid_status that also counts a cancelled record as activity
valid_status_con_canc == {T("Back Office"), T("En entrega"), T("En preparacion"),
                          T("Entregado"), T("Solicitado"), T("Canc Error")}

valid_status == {T("Back Office"), T("En entrega"), T("En preparacion"),
                 T("Entregado"), T("Solicitado")}

\* ventas_validas taken over every month of consulta
ventas_validas_sin_mes(consulta, ref) ==
    LET validas == RowsAt(consulta, {i \in 1..Len(consulta) :
                                       consulta[i].Estatus \in valid_status})
        vend == [i \in 1..Len(validas) |-> validas[i].Vendedor]
    IN RowsAt(vend, {i \in 1..Len(vend) : \A j \in 1..(i - 1) : vend[j] # vend[i]})

\* ventas_mes[...isin(valid_status)][["Vendedor"]].drop_duplicates()
ventas_validas(consulta, ref) ==
    LET mask_mes(i) == consulta[i].Fecha_creacion # NaT
                       /\ consulta[i].Fecha_creacion.y = ref.y
                       /\ consulta[i].Fecha_creacion.m = ref.m
        ventas_mes == RowsAt(consulta, {i \in 1..Len(consulta) : mask_mes(i)})
        validas == RowsAt(ventas_mes, {i \in 1..Len(ventas_mes) :
                                         ventas_mes[i].Estatus \in valid_status})
        vend == [i \in 1..Len(validas) |-> validas[i].Vendedor]
    IN RowsAt(vend, {i \in 1..Len(vend) : \A j \in 1..(i - 1) : vend[j] # vend[i]})

\* empleados_sinv.merge(ventas_validas, how="left", left_on="NombreCompleto",
\* right_on="Vendedor", indicator=True)
merge_indicator(emp, vv) ==
    LET matches(e) == RowsAt(vv, {j \in 1..Len(vv) : vv[j] = e.NombreCompleto})
        joined(e, v, ind) == [NombreCompleto |-> e.NombreCompleto,
                              JefeDirecto |-> e.JefeDirecto,
                              Puesto |-> e.Puesto,
                              Coordinador |-> e.Coordinador,
                              Vendedor |-> v, merge |-> ind]
        out(e) == LET ms == matches(e)
                  IN IF ms = << >> THEN <<joined(e, NaN, "left_only")>>
                     ELSE [k \in 1..Len(ms) |-> joined(e, ms[k], "both")]
        F[k \in 0..Len(emp)] == IF k = 0 THEN << >> ELSE F[k - 1] \o out(emp[k])
    IN F[Len(emp)]

build_sin_venta(h, consulta, ref) ==
    LET empleados_sinv == empleados_join(h)
        tmp == merge_indicator(empleados_sinv, ventas_validas(consulta, ref))
        sinv == RowsAt(tmp, {i \in 1..Len(tmp) : tmp[i].merge = "left_only"})
    IN [i \in 1..Len(sinv) |->
          [NombreCompleto |-> sinv[i].NombreCompleto,
           JefeDirecto |-> sinv[i].JefeDirecto,
           Puesto |-> sinv[i].Puesto,
           Coordinador |-> sinv[i].Coordinador]]

----------------------------------------------------------------------------
(* KPI helpers *)

\* int((df[col] == value).sum())
CountEq(df, col, value) == Cardinality({i \in 1..Len(df) : df[i][col] = value})

\* kpi_activadas whose empty-table branch returns the numeric null
kpi_activadas_nulo_en_vacio(df) ==
    IF df = << >> THEN NA_NUM ELSE CountEq(df, "Status", ENTREGADO)

kpi_activadas(df) == IF df = << >> THEN 0 ELSE CountEq(df, "Status", ENTREGADO)

kpi_back(df) == CountEq(df, "Estatus", T("Back Office"))

kpi_en_entrega(df) == CountEq(df, "Estatus", T("En entrega"))

kpi_en_transito(df) == CountEq(df, "Status", EN_TRANSITO)

kpi_preparacion(df) == CountEq(df, "Estatus", T("En preparacion"))

kpi_solicitados(df) == CountEq(df, "Estatus", T("Solicitado"))

kpi_total_sinventa(df_sinventa) == Len(df_sinventa)

\* rows whose trimmed Estatus is "Entregado" and whose Venta is null or empty
\* after trimming
kpi_validacion_pbi_all(ventasnc_all) ==
    IF ventasnc_all = << >> \/ ~({"Estatus", "Venta"} \subseteq Columns(ventasnc_all))
    THEN 0
    ELSE Cardinality({i \in 1..Len(ventasnc_all) :
            /\ Strip(AsStr(ventasnc_all[i].Estatus)) = T("Entregado")
            /\ \/ IsNa(ventasnc_all[i].Venta)
               \/ Strip(AsStr(ventasnc_all[i].Venta)) = EMPTY})

----------------------------------------------------------------------------
(* main, after the load block *)

ALL == T("All")

\* fecha_ini <= fecha_fin on datetime.date values
DateLE(a, b) ==
    \/ a.y < b.y
    \/ a.y = b.y /\ a.m < b.m
    \/ a.y = b.y /\ a.m = b.m /\ a.d <= b.d

\* consulta_base[(Fecha >= fecha_ini) & (Fecha <= fecha_fin)]: a comparison with
\* a null Fecha is False
window(base, fecha_ini, fecha_fin) ==
    RowsAt(base, {i \in 1..Len(base) :
                    /\ base[i].Fecha # NaT
                    /\ DateLE(fecha_ini, base[i].Fecha)
                    /\ DateLE(base[i].Fecha, fecha_fin)})

\* df[df[col] == sel] unless sel is "All"; a null never equals a selection
filter_sel(df, col, sel) ==
    IF sel = ALL THEN df
    ELSE RowsAt(df, {i \in 1..Len(df) : df[i][col] = sel})

\* ["All"] + the non-null values of a column
options(df, col) == {ALL} \cup ({df[i][col] : i \in 1..Len(df)} \ {NaN})

\* the table the Ejecutivo selector is filled from
df_for_exec(consulta, centro_sel, supervisor_sel, mes_sel) ==
    LET a == filter_sel(consulta, "Centro_Original", centro_sel)
        b == filter_sel(a, "Jefe_directo", supervisor_sel)
        c == filter_sel(b, "Mes", mes_sel)
    IN RowsAt(c, {i \in 1..Len(c) : NotExcluded(c[i].Vendedor)})

df_no_month(consulta, centro_sel, supervisor_sel, ejecutivo_sel) ==
    LET a == filter_sel(consulta, "Centro_Original", centro_sel)
        b == filter_sel(a, "Jefe_directo", supervisor_sel)
    IN filter_sel(b, "Vendedor", ejecutivo_sel)

\* sinventa of the selected supervisor, without the sentinel supervisor
sinv_fil(sinv, supervisor_sel) ==
    LET a == filter_sel(sinv, "JefeDirecto", supervisor_sel)
    IN RowsAt(a, {i \in 1..Len(a) : a[i].JefeDirecto # ENCUBADORA})

\* rows other than 'Canc Error': df_prog_base of the weekly tab, df_prog of the
\* top-executives tab
programadas(df) == RowsAt(df, {i \in 1..Len(df) : df[i].Estatus # T("Canc Error")})

\* the flag columns with flag_Programada computed from Status
flags_por_status(r) ==
    LET b(p) == IF p THEN 1 ELSE 0
        et(est) == b(r.Status = EN_TRANSITO /\ r.Estatus = T(est))
    IN [flag_Programada |-> b(r.Status # T("Canc Error")),
        flag_Activadas |-> b(r.Status = ENTREGADO),
        flag_EnTransito |-> b(r.Status = EN_TRANSITO),
        flag_ET_EnEntrega |-> et("En entrega"),
        flag_ET_EnPreparacion |-> et("En preparacion"),
        flag_ET_Solicitado |-> et("Solicitado"),
        flag_ET_BackOffice |-> et("Back Office"),
        flag_ET_EntregadoSinVenta |-> et("Entregado")] @@ r

\* the flag columns of the Detalle General tab
flags(r) ==
    LET b(p) == IF p THEN 1 ELSE 0
        et(est) == b(r.Status = EN_TRANSITO /\ r.Estatus = T(est))
    IN [flag_Programada |-> b(r.Estatus # T("Canc Error")),
        flag_Activadas |-> b(r.Status = ENTREGADO),
        flag_EnTransito |-> b(r.Status = EN_TRANSITO),
        flag_ET_EnEntrega |-> et("En entrega"),
        flag_ET_EnPreparacion |-> et("En preparacion"),
        flag_ET_Solicitado |-> et("Solicitado"),
        flag_ET_BackOffice |-> et("Back Office"),
        flag_ET_EntregadoSinVenta |-> et("Entregado")] @@ r

\* sum of a flag column
FlagSum(df, col) ==
    LET F[k \in 0..Len(df)] == IF k = 0 THEN 0 ELSE F[k - 1] + df[k][col]
    IN F[Len(df)]

\* main from the date-window filter on, given the roster h, the classified
\* table cb and the validation count vp of the held dataset: the No-Activity
\* table, the sidebar selections (each taken from the options offered), the
\* filtered tables and the numbers displayed
Vista(h, cb, vp, fecha_ini, fecha_fin, centro_sel, supervisor_sel, mes_sel, ejecutivo_sel) ==
    /\ LET consulta == window(cb, fecha_ini, fecha_fin)
           sinv == build_sin_venta(h, consulta, fecha_fin)
           exec == df_for_exec(consulta, centro_sel, supervisor_sel, mes_sel)
           no_month == df_no_month(consulta, centro_sel, supervisor_sel, ejecutivo_sel)
           df == filter_sel(no_month, "Mes", mes_sel)
           df_flags == [i \in 1..Len(df) |-> flags(df[i])]
       IN /\ centro_sel \in options(consulta, "Centro_Original")
          /\ supervisor_sel \in options(consulta, "Jefe_directo")
          /\ mes_sel \in options(consulta, "Mes")
          /\ ejecutivo_sel \in options(exec, "Vendedor")
          /\ filtros' = [fecha_ini |-> fecha_ini, fecha_fin |-> fecha_fin,
                         centro_sel |-> centro_sel, supervisor_sel |-> supervisor_sel,
                         mes_sel |-> mes_sel, ejecutivo_sel |-> ejecutivo_sel]
          /\ sinventa' = sinv
          /\ ref_date' = fecha_fin
          /\ vista' = [consulta |-> consulta, df_no_month |-> no_month, df |-> df,
                       sinv_fil |-> sinv_fil(sinv, supervisor_sel),
                       df_prog_base |-> programadas(no_month),
                       df_prog |-> programadas(df),
                       df_flags |-> df_flags]
          /\ kpi' = [preparacion |-> kpi_preparacion(df),
                     solicitados |-> kpi_solicitados(df),
                     en_entrega |-> kpi_en_entrega(df),
                     en_transito |-> kpi_en_transito(df),
                     activadas |-> kpi_activadas(df),
                     back |-> kpi_back(df),
                     validacion_pbi |-> vp,
                     total_sinventa |-> kpi_total_sinventa(sinv_fil(sinv, supervisor_sel)),
                     TotalProgramadas |-> FlagSum(df_flags, "flag_Programada"),
                     Activadas |-> FlagSum(df_flags, "flag_Activadas"),
                     EnTransito |-> FlagSum(df_flags, "flag_EnTransito")]

\* one run of main on loaded data; with fecha_ini after fecha_fin main returns
\* at once.  A run reads only the loaded data and its inputs, so one run per
\* load shows every result a rerun can show
Main(fecha_ini, fecha_fin, centro_sel, supervisor_sel, mes_sel, ejecutivo_sel) ==
    /\ pc = "consulta"
    /\ DateLE(fecha_ini, fecha_fin)
    /\ Vista(hoja, consulta_base, kpi_validacion_pbi_all(consulta_base), fecha_ini,
             fecha_fin, centro_sel, supervisor_sel, mes_sel, ejecutivo_sel)
    /\ pc' = "main"
    /\ UNCHANGED <<hoja_raw, consulta_raw, hoja, consulta_base, otros>>

----------------------------------------------------------------------------
(* The pipeline: main's load block, then the No-Activity detector *)

LoadHoja1 ==
    /\ pc = "start"
    /\ hoja' = load_hoja1(hoja_raw)
    /\ pc' = "hoja"
    /\ UNCHANGED <<hoja_raw, consulta_raw, ref_date, consulta_base, sinventa,
                   filtros, vista, kpi, otros>>

\* transform_consulta1 returns the classified table, or raises KeyError and
\* main's run ends with nothing stored
TransformConsulta1 ==
    /\ pc = "hoja"
    /\ IF RaisesKeyError(consulta_raw)
       THEN pc' = "KeyError" /\ UNCHANGED consulta_base
       ELSE consulta_base' = transform_consulta1(consulta_raw, hoja)
            /\ pc' = "consulta"
    /\ UNCHANGED <<hoja_raw, consulta_raw, ref_date, hoja, sinventa,
                   filtros, vista, kpi, otros>>

\* BuildSinVenta that filters the roster it is given in place
BuildSinVenta_en_sitio ==
    /\ pc = "consulta"
    /\ sinventa' = build_sin_venta(hoja, consulta_base, ref_date)
    /\ hoja' = empleados_join(hoja)
    /\ pc' = "sinventa"
    /\ UNCHANGED <<hoja_raw, consulta_raw, ref_date, consulta_base,
                   filtros, vista, kpi, otros>>

BuildSinVenta ==
    /\ pc = "consulta"
    /\ sinventa' = build_sin_venta(hoja, consulta_base, ref_date)
    /\ pc' = "sinventa"
    /\ UNCHANGED <<hoja_raw, consulta_raw, ref_date, hoja, consulta_base,
                   filtros, vista, kpi, otros>>

Next == LoadHoja1 \/ TransformConsulta1 \/ BuildSinVenta

----------------------------------------------------------------------------
(* Inputs *)

\* tables of at most n rows drawn from R
Tables(R, n) == UNION {[1..k -> R] : k \in 0..n}

\* a transaction table whose Folio (the ticket identifier) is the row's position
\* the columns a row domain leaves out take the values of TX_DEFAULT
TX_DEFAULT == [Centro |-> T("EXP ATT C CENTER 2"), Back_Office |-> NaN,
               Cliente |-> T("CLIENTE"), Venta |-> T("SALE123"),
               Fecha_contacto |-> [a |-> 14, b |-> 11, y |-> 2025, h |-> 0]]

WithFolio(t) == [i \in 1..Len(t) |-> [Folio |-> i] @@ t[i] @@ TX_DEFAULT]

\* the roster query returns distinct rows (SELECT DISTINCT)
Distinct(t) == \A i, j \in 1..Len(t) : i # j => t[i] # t[j]

ESTATUS_SQL == {T("En entrega"), T("Canc Error"), T("Entregado"),
                T("En preparacion"), T("Back Office"), T("Solicitado")}

Emp(n, j, p) == [NombreCompleto |-> n, JefeDirecto |-> j, Puesto |-> p]

\* the timestamp text "a/b/y" (midnight) and the text "a/b/y h:00"
Fecha(a, b, y) == [a |-> a, b |-> b, y |-> y, h |-> 0]
FechaHora(a, b, y, h) == [a |-> a, b |-> b, y |-> y, h |-> h]

NotStarted ==
    /\ hoja = << >>
    /\ consulta_base = << >>
    /\ sinventa = << >>
    /\ filtros = << >>
    /\ vista = << >>
    /\ kpi = << >>
    /\ base_data = << >>
    /\ cache = << >>
    /\ origen = << >>
    /\ bo_in = << >>
    /\ bo_out = << >>
    /\ pc = "start"

----------------------------------------------------------------------------
(* Status Classifier: any status of the query, any sale reference *)

MaxTxStatus == 2

VentasStatus == {NaN, EMPTY, <<SP, SP>>, T("SALE123"), T("nan")}

\* every status with every sale reference; the second salesperson on delivered
\* rows only
TxStatus ==
    {t \in [Estatus : ESTATUS_SQL, Venta : VentasStatus,
            Vendedor : {T("ANA"), T("LUIS")},
            Fecha_creacion : {Fecha(15, 11, 2025)}] :
       t.Vendedor = T("LUIS")
           => (t.Estatus = T("Entregado") /\ t.Venta \in {NaN, T("SALE123")})}

InitStatus ==
    /\ hoja_raw \in {<< >>, <<Emp(T("ANA"), T("SUP1"), T("ASESOR TELEFONICO 7500"))>>}
    /\ consulta_raw \in {WithFolio(t) : t \in Tables(TxStatus, MaxTxStatus)}
    /\ ref_date = [y |-> 2025, m |-> 11, d |-> 30]
    /\ NotStarted

NextStatus == LoadHoja1 \/ TransformConsulta1

SpecStatus == InitStatus /\ [][NextStatus]_vars

\* the raw row a classified row comes from
RawOf(r) == consulta_raw[r.Folio]

\* absent as C1 words it: null, empty, or empty after trimming
VentaBlank(v) == v = NaN \/ Strip(v) = EMPTY

\* absent as the normaliser defines it: null, or after trimming empty, "nan" or "None"
VentaAbsent(v) == v = NaN \/ Strip(v) \in {EMPTY, T("nan"), T("None")}

\* C1: every transaction with raw status 'Entregado' and an absent sale
\* reference (null, empty, or whitespace only) has Status 'En Transito'
C1_EntregadoSinVenta ==
    \A r \in Rows(consulta_base) :
        (RawOf(r).Estatus = T("Entregado") /\ VentaBlank(RawOf(r).Venta))
            => r.Status = EN_TRANSITO
W1_EntregadoSinVenta ==
    \E r \in Rows(consulta_base) :
        /\ RawOf(r).Estatus = T("Entregado")
        /\ RawOf(r).Venta = EMPTY
        /\ r.Status = EN_TRANSITO

PENDIENTES == {T("En entrega"), T("En preparacion"), T("Solicitado"), T("Back Office")}

\* C2: every transaction whose raw status is 'En entrega', 'En preparacion',
\* 'Solicitado' or 'Back Office' has Status 'En Transito', whatever its sale
\* reference
C2_PendienteEnTransito ==
    \A r \in Rows(consulta_base) :
        RawOf(r).Estatus \in PENDIENTES => r.Status = EN_TRANSITO

\* each of the four statuses is classified, with a present and with a null sale
\* reference
W2_PendienteEnTransito ==
    /\ Len(consulta_base) = 2
    /\ RawOf(consulta_base[1]).Estatus = T("En preparacion")
    /\ RawOf(consulta_base[1]).Venta = NaN
    /\ consulta_base[1].Status = EN_TRANSITO
    /\ RawOf(consulta_base[2]).Estatus = T("Back Office")
    /\ RawOf(consulta_base[2]).Venta = T("SALE123")
    /\ consulta_base[2].Status = EN_TRANSITO

\* C3: every transaction with raw status 'Entregado' and a sale reference that
\* is not absent, and every transaction with raw status 'Canc Error', has
\* Status 'Entregado'
C3_Entregado ==
    \A r \in Rows(consulta_base) :
        \/ RawOf(r).Estatus = T("Entregado") /\ ~VentaAbsent(RawOf(r).Venta)
        \/ RawOf(r).Estatus = T("Canc Error")
        => r.Status = ENTREGADO

W3_Entregado ==
    /\ Len(consulta_base) = 2
    /\ RawOf(consulta_base[1]).Estatus = T("Entregado")
    /\ RawOf(consulta_base[1]).Venta = T("SALE123")
    /\ consulta_base[1].Status = ENTREGADO
    /\ RawOf(consulta_base[2]).Estatus = T("Canc Error")
    /\ RawOf(consulta_base[2]).Venta = NaN
    /\ consulta_base[2].Status = ENTREGADO

\* C4: two transactions with equal raw status and equal sale reference have the
\* same Status, whatever their salesperson and matched supervisor
C4_StatusFunction ==
    \A r1, r2 \in Rows(consulta_base) :
        (RawOf(r1).Estatus = RawOf(r2).Estatus /\ RawOf(r1).Venta = RawOf(r2).Venta)
            => r1.Status = r2.Status

\* two rows that agree on (Estatus, Venta) and on nothing else the classifier
\* could read: one matched to a supervisor, one unmatched
W4_StatusFunction ==
    \E r1, r2 \in Rows(consulta_base) :
        /\ RawOf(r1).Estatus = T("Entregado") /\ RawOf(r2).Estatus = T("Entregado")
        /\ RawOf(r1).Venta = T("SALE123") /\ RawOf(r2).Venta = T("SALE123")
        /\ r1.Vendedor # r2.Vendedor
        /\ r1.Jefe_directo = T("SUP1") /\ r2.Jefe_directo = ENCUBADORA
        /\ r1.Status = r2.Status

\* C11: for any subset of the rows of the classified table, kpi_activadas plus
\* kpi_en_transito equals the number of rows of the subset
C11_KpiConsistency ==
    \A I \in SUBSET (1..Len(consulta_base)) :
        LET sub == RowsAt(consulta_base, I)
        IN kpi_activadas(sub) + kpi_en_transito(sub) = Len(sub)

\* a classified table with a cancelled row counted as activated and a pending
\* row counted as in transit
W11_KpiConsistency ==
    /\ Len(consulta_base) = 2
    /\ consulta_base[1].Estatus = T("Canc Error")
    /\ consulta_base[2].Estatus = T("Solicitado")
    /\ kpi_activadas(consulta_base) = 1
    /\ kpi_en_transito(consulta_base) = 1
    /\ kpi_activadas(<<consulta_base[2]>>) = 0

----------------------------------------------------------------------------
(* No-Activity detector: rosters with repeated names, blank supervisors and   *)
(* roles outside the restricted subset; transactions inside and outside the   *)
(* reference month, with and without a valid-activity status                  *)

MaxEmpSinVenta == 2
MaxTxSinVenta == 2

\* the second employee with one supervisor only
EmpSinVenta ==
    {e \in [NombreCompleto : {T("ANA"), T("LUIS")},
            JefeDirecto : {T("SUP1"), T("SUP2"), <<SP>>},
            Puesto : {T("ASESOR TELEFONICO 7500"), T("ASESOR TELEFONICO")}] :
       e.NombreCompleto = T("LUIS") => e.JefeDirecto = T("SUP1")}

\* a delivered row in the reference month for each salesperson, a cancelled
\* row in the month and a delivered row outside it
TxSinVenta ==
    {t \in [Estatus : {T("Entregado"), T("Canc Error")},
            Venta : {T("SALE123")},
            Vendedor : {T("ANA"), T("LUIS")},
            Fecha_creacion : {Fecha(15, 11, 2025), Fecha(15, 12, 2025)}] :
       \/ t.Estatus = T("Entregado") /\ t.Fecha_creacion = Fecha(15, 11, 2025)
       \/ t.Estatus = T("Canc Error") /\ t.Vendedor = T("ANA")
            /\ t.Fecha_creacion = Fecha(15, 11, 2025)
       \/ t.Estatus = T("Entregado") /\ t.Vendedor = T("LUIS")}

InitSinVenta ==
    /\ hoja_raw \in {t \in Tables(EmpSinVenta, MaxEmpSinVenta) : Distinct(t)}
    /\ consulta_raw \in {WithFolio(t) : t \in Tables(TxSinVenta, MaxTxSinVenta)}
    /\ ref_date = [y |-> 2025, m |-> 11, d |-> 30]
    /\ NotStarted

SpecSinVenta == InitSinVenta /\ [][Next]_vars
\* the restricted role subset as the claims word it
RolesSinVenta == {T("ASESOR TELEFONICO 7500"), T("EJECUTIVO TELEFONICO 6500 AM")}

IsVendor(name) == name # NaN /\ StrUpper(Strip(name)) = EXCLUDED_VENDOR

Candidate(e) ==
    /\ e.Puesto \in RolesSinVenta
    /\ e.JefeDirecto # ENCUBADORA
    /\ ~IsVendor(e.NombreCompleto)

\* the first candidate row of its name
FirstCandidate(i) ==
    /\ Candidate(hoja[i])
    /\ \A j \in 1..(i - 1) :
          Candidate(hoja[j]) => hoja[j].NombreCompleto # hoja[i].NombreCompleto

ActivityStatus == {T("Back Office"), T("En entrega"), T("En preparacion"),
                   T("Entregado"), T("Solicitado")}

\* name is the salesperson of a transaction created in the reference month with
\* a valid-activity raw status
Active(name) ==
    \E t \in Rows(consulta_base) :
        /\ t.Fecha_creacion # NaT
        /\ t.Fecha_creacion.y = ref_date.y
        /\ t.Fecha_creacion.m = ref_date.m
        /\ RawOf(t).Estatus \in ActivityStatus
        /\ t.Vendedor = name

\* C5: build_sin_venta returns exactly the employees of the restricted role
\* subset (deduplicated by full name) whose full name is the salesperson of no
\* valid-activity transaction of the reference month, each once
C5_SinVentaExact ==
    pc = "sinventa" =>
        /\ Rows(sinventa) =
             {Cols(hoja[i]) : i \in {k \in 1..Len(hoja) :
                                       FirstCandidate(k) /\ ~Active(hoja[k].NombreCompleto)}}
        /\ Cardinality(Rows(sinventa)) = Len(sinventa)

\* an employee whose only transactions of the month are 'Canc Error' is output,
\* beside one left out for a delivered transaction
W5_SinVentaExact ==
    /\ pc = "sinventa"
    /\ \E s \in Rows(sinventa) : s.NombreCompleto = T("ANA")
    /\ \E t \in Rows(consulta_base) :
          /\ t.Vendedor = T("ANA") /\ t.Estatus = T("Canc Error")
          /\ t.Fecha_creacion.m = ref_date.m
    /\ \E i \in 1..Len(hoja) : FirstCandidate(i) /\ Active(hoja[i].NombreCompleto)

Population == {hoja[i].NombreCompleto : i \in {k \in 1..Len(hoja) : Candidate(hoja[k])}}

WithActivity == {n \in Population : Active(n)}

SinVentaNames == {sinventa[i].NombreCompleto : i \in 1..Len(sinventa)}

\* C6: the employees with a qualifying transaction in the reference month and
\* the No-Activity output are disjoint, together they are the whole restricted
\* population, and no name is output twice
C6_AntiJoinPartition ==
    pc = "sinventa" =>
        /\ SinVentaNames \cap WithActivity = {}
        /\ SinVentaNames \cup WithActivity = Population
        /\ Cardinality(SinVentaNames) = Len(sinventa)

\* both parts are inhabited;
\* LUIS's only valid activity lies outside the reference month
W6_AntiJoinPartition ==
    /\ pc = "sinventa"
    /\ WithActivity = {T("ANA")}
    /\ SinVentaNames = {T("LUIS")}
    /\ \E t \in Rows(consulta_base) :
          /\ t.Vendedor = T("LUIS") /\ t.Estatus = T("Entregado")
          /\ t.Fecha_creacion.m # ref_date.m
\* a raw supervisor that is null or blank
JefeBlank(v) == v = NaN \/ Strip(v) = EMPTY

\* C9: an employee whose raw supervisor is blank is resolved to 'ENCUBADORA' and
\* is no row of the No-Activity output, whatever the transactions are
C9_EncubadoraExcluded ==
    /\ \A e \in Rows(hoja) :
          JefeBlank(hoja_raw[e.index].JefeDirecto) =>
              /\ e.JefeDirecto = ENCUBADORA
              /\ Cols(e) \notin Rows(sinventa)
    /\ \A s \in Rows(sinventa) : s.JefeDirecto # ENCUBADORA

\* an employee of an eligible role, with a blank supervisor and no transaction
\* at all, is left out while another employee is output
W9_EncubadoraExcluded ==
    /\ pc = "sinventa"
    /\ consulta_raw = << >>
    /\ Len(sinventa) = 1
    /\ \E e \in Rows(hoja) :
          /\ JefeBlank(hoja_raw[e.index].JefeDirecto)
          /\ e.Puesto = T("ASESOR TELEFONICO 7500")
          /\ e.JefeDirecto = ENCUBADORA
          /\ e.NombreCompleto # sinventa[1].NombreCompleto

----------------------------------------------------------------------------
(* Roster Resolver: every raw form of the supervisor, names that differ only  *)
(* by padding, the same name under two supervisors                            *)

MaxEmpRoster == 2

JefesRoster == {NaN, T("nan"), T("None"), EMPTY, <<SP, SP>>,
                T("SUP1"), <<SP, "SUP1", SP>>, T("SUP2")}

EmpRoster == [NombreCompleto : {T("ANA"), <<"ANA", SP>>, T("LUIS")},
              JefeDirecto : JefesRoster,
              Puesto : {T("ASESOR TELEFONICO 7500"), T("SUPERVISOR DE CONTACT CENTER")}]

TxRoster == [Estatus |-> T("Entregado"), Venta |-> T("SALE123"),
             Vendedor |-> T("ANA"), Fecha_creacion |-> Fecha(15, 11, 2025)]

InitRoster ==
    /\ hoja_raw \in {t \in Tables(EmpRoster, MaxEmpRoster) : Distinct(t)}
    /\ consulta_raw \in {<< >>, WithFolio(<<TxRoster>>)}
    /\ ref_date = [y |-> 2025, m |-> 11, d |-> 30]
    /\ NotStarted

SpecRoster == InitRoster /\ [][Next]_vars

NoDupNames(df) ==
    \A i, j \in 1..Len(df) : i # j => df[i].NombreCompleto # df[j].NombreCompleto

\* C7 as stated: the result of load_hoja1 never holds two rows with the same
\* full name
C7_RosterNoDup == NoDupNames(hoja)

\* C7 amended: the role-restricted roster derived from load_hoja1's result for
\* the hierarchy join and for the No-Activity detector holds no two rows with
\* the same full name, the first row of each name among those passing the
\* role, supervisor and vendor filters being the one kept; a joined transaction
\* carries that row's supervisor and no name is output twice by build_sin_venta
C7_JoinRosterNoDup ==
    LET ej == empleados_join(hoja)
    IN /\ NoDupNames(ej)
       /\ Rows(ej) = {hoja[i] : i \in {k \in 1..Len(hoja) : FirstCandidate(k)}}
       /\ \A t \in Rows(consulta_base) : \A i \in 1..Len(hoja) :
             (FirstCandidate(i) /\ hoja[i].NombreCompleto = t.Vendedor)
                 => t.Jefe_directo = hoja[i].JefeDirecto
       /\ NoDupNames(sinventa)

\* the roster holds the same name under two supervisors; the join roster keeps
\* the first, and the transaction of that name is joined to it
W7_JoinRosterNoDup ==
    /\ pc = "sinventa"
    /\ Len(hoja) = 2
    /\ hoja[1].NombreCompleto = T("ANA") /\ hoja[2].NombreCompleto = T("ANA")
    /\ hoja[1].JefeDirecto = T("SUP2") /\ hoja[2].JefeDirecto = T("SUP1")
    /\ Len(empleados_join(hoja)) = 1
    /\ Len(consulta_base) = 1
    /\ consulta_base[1].Jefe_directo = T("SUP2")

\* C8: every row of load_hoja1's result has a supervisor that is neither null
\* nor empty: 'ENCUBADORA' when the raw supervisor is null or, once trimmed,
\* empty, 'nan' or 'None', and the trimmed raw supervisor otherwise
C8_JefeResolved ==
    \A e \in Rows(hoja) :
        LET raw == hoja_raw[e.index].JefeDirecto
        IN /\ e.JefeDirecto # NaN
           /\ e.JefeDirecto # EMPTY
           /\ e.JefeDirecto =
                IF raw = NaN \/ Strip(raw) \in {EMPTY, T("nan"), T("None")}
                THEN ENCUBADORA ELSE Strip(raw)

W8_JefeResolved ==
    /\ Len(hoja) = 2
    /\ hoja_raw[1].JefeDirecto = <<SP, SP>> /\ hoja[1].JefeDirecto = ENCUBADORA
    /\ hoja_raw[2].JefeDirecto = <<SP, "SUP1", SP>> /\ hoja[2].JefeDirecto = T("SUP1")

----------------------------------------------------------------------------
(* Excluded vendor: the identity in upper case, in mixed case and padded, in  *)
(* the roster and as salesperson                                              *)

MaxEmpVendor == 2
MaxTxVendor == 2

VENDOR_MIXED == "Abastecedora y Suministros Ortega/Isabel Valdez Jimenez"

NamesVendor == {T("ANA"), EXCLUDED_VENDOR, T(VENDOR_MIXED), <<SP, VENDOR_MIXED, SP>>}

EmpVendor == [NombreCompleto : NamesVendor, JefeDirecto : {T("SUP1")},
              Puesto : {T("ASESOR TELEFONICO 7500")}]

TxVendor == [Estatus : {T("Entregado"), T("Canc Error")}, Venta : {T("SALE123")},
             Vendedor : NamesVendor, Fecha_creacion : {Fecha(15, 11, 2025)}]

InitVendor ==
    /\ hoja_raw \in {t \in Tables(EmpVendor, MaxEmpVendor) : Distinct(t)}
    /\ consulta_raw \in {WithFolio(t) : t \in Tables(TxVendor, MaxTxVendor)}
    /\ ref_date = [y |-> 2025, m |-> 11, d |-> 30]
    /\ NotStarted

SpecVendor == InitVendor /\ [][Next]_vars

\* C10: the excluded vendor, compared case-insensitively on the trimmed name, is
\* no row of the resolved roster, the salesperson of no row of the classified
\* and joined transaction table, and no row of the No-Activity output
C10_VendorExcluded ==
    /\ \A e \in Rows(hoja) : ~IsVendor(e.NombreCompleto)
    /\ \A t \in Rows(consulta_base) : ~IsVendor(t.Vendedor)
    /\ \A s \in Rows(sinventa) : ~IsVendor(s.NombreCompleto)

\* the vendor is in the raw roster and is the salesperson of a raw transaction,
\* in a form other than the upper-case literal, and the three relations hold
\* the other employee and the other transaction
W10_VendorExcluded ==
    /\ pc = "sinventa"
    /\ \E i \in 1..Len(hoja_raw) :
          IsVendor(hoja_raw[i].NombreCompleto) /\ hoja_raw[i].NombreCompleto # EXCLUDED_VENDOR
    /\ \E i \in 1..Len(consulta_raw) :
          IsVendor(consulta_raw[i].Vendedor) /\ consulta_raw[i].Vendedor # EXCLUDED_VENDOR
    /\ Len(hoja) = 1
    /\ Len(consulta_base) = 1
    /\ Len(sinventa) = 1

----------------------------------------------------------------------------
(* Hierarchy join: rosters with repeated and null names, salespeople that   *)
(* match exactly, after trimming, not at all, or are null                   *)

MaxEmpJoin == 2
MaxTxJoin == 2

\* the rows without a name differ in their role only
EmpJoin ==
    {e \in [NombreCompleto : {T("ANA"), NaN},
            JefeDirecto : {T("SUP1"), T("SUP2"), <<SP>>},
            Puesto : {T("ASESOR TELEFONICO 7500"), T("ASESOR TELEFONICO")}] :
       e.NombreCompleto = NaN => e.JefeDirecto = T("SUP1")}

TxJoin == [Estatus : {T("Solicitado")},
           Vendedor : {T("ANA"), <<SP, "ANA">>, T("ana"), NaN, EXCLUDED_VENDOR},
           Fecha_creacion : {Fecha(15, 11, 2025)}]

InitJoin ==
    /\ hoja_raw \in {t \in Tables(EmpJoin, MaxEmpJoin) : Distinct(t)}
    /\ consulta_raw \in {WithFolio(t) : t \in Tables(TxJoin, MaxTxJoin)}
    /\ ref_date = [y |-> 2025, m |-> 11, d |-> 30]
    /\ NotStarted

SpecJoin == InitJoin /\ [][NextStatus]_vars

\* transform_consulta1 has returned
Transformed == pc \in {"consulta", "sinventa", "main"}

\* the Folio column of a table, in row order
Folios(df) == [i \in 1..Len(df) |-> df[i].Folio]

\* the input transactions that are not the excluded vendor's
NotVendorRows(raw) ==
    RowsAt(raw, {i \in 1..Len(raw) : ~IsVendor(raw[i].Vendedor)})

\* C12: apart from the rows of the excluded vendor, the output of
\* transform_consulta1 has exactly one row per input transaction, in input
\* order, whatever the roster
C12_JoinKeepsRows ==
    Transformed => Folios(consulta_base) = Folios(NotVendorRows(consulta_raw))

\* a roster with a repeated full name, a matching transaction that comes out
\* once, and a vendor transaction that does not come out
W12_JoinKeepsRows ==
    /\ pc = "consulta"
    /\ Len(hoja) = 2
    /\ hoja[1].NombreCompleto = T("ANA") /\ hoja[2].NombreCompleto = T("ANA")
    /\ Candidate(hoja[1]) /\ Candidate(hoja[2])
    /\ Len(consulta_raw) = 2
    /\ consulta_raw[1].Vendedor = T("ANA")
    /\ consulta_raw[2].Vendedor = EXCLUDED_VENDOR
    /\ Folios(consulta_base) = <<1>>

\* the roster rows a transaction's salesperson is joined to: the candidate rows
\* (one of the two roles, a supervisor other than the sentinel, not the
\* vendor) whose full name is the salesperson, null matching null
JoinRows(r) == {i \in 1..Len(hoja) : Candidate(hoja[i]) /\ hoja[i].NombreCompleto = r.Vendedor}

Min(S) == CHOOSE x \in S : \A z \in S : x <= z

\* C13 as stated: a transaction whose salesperson is the full name of an
\* employee of the resolved roster has that employee's supervisor and
\* coordinator, whatever the employee's role
C13_JoinAnyRole ==
    \A r \in Rows(consulta_base) : \A e \in Rows(hoja) :
        (r.Vendedor # NaN /\ e.NombreCompleto = r.Vendedor)
            => (r.Jefe_directo = e.JefeDirecto /\ r.Coordinador = e.Coordinador)

\* C13: a transaction whose salesperson is the full name of a roster row with
\* one of the two roles of the join, a supervisor other than 'ENCUBADORA' and a
\* name other than the vendor's has the supervisor and coordinator of the first
\* such row; any other transaction has supervisor 'ENCUBADORA' and a null
\* coordinator
C13_JoinEligibleRoster ==
    \A r \in Rows(consulta_base) :
        IF JoinRows(r) # {}
        THEN /\ r.Jefe_directo = hoja[Min(JoinRows(r))].JefeDirecto
             /\ r.Coordinador = hoja[Min(JoinRows(r))].Coordinador
        ELSE /\ r.Jefe_directo = ENCUBADORA
             /\ r.Coordinador = NaN

\* a name listed twice with the role of the join: the transaction has the first
\* row's supervisor; and a name listed with another role only: 'ENCUBADORA'
W13_JoinEligibleRoster ==
    /\ Len(hoja) = 2 /\ Len(consulta_base) = 1
    /\ hoja[1].NombreCompleto = T("ANA") /\ hoja[2].NombreCompleto = T("ANA")
    /\ hoja[1].Puesto = T("ASESOR TELEFONICO")
    /\ hoja[1].JefeDirecto = T("SUP1")
    /\ hoja[2].Puesto = T("ASESOR TELEFONICO 7500")
    /\ hoja[2].JefeDirecto = T("SUP2")
    /\ RawOf(consulta_base[1]).Vendedor = <<SP, "ANA">>
    /\ consulta_base[1].Jefe_directo = T("SUP2")
    /\ consulta_base[1].Coordinador = T("SUP2")

\* C14: every transaction that is not the vendor's is retained, matched or not,
\* null salesperson or not; every output row has a supervisor that is neither
\* null nor blank, and a row joined to no roster row has 'ENCUBADORA'
C14_UnmatchedEncubadora ==
    Transformed =>
        /\ \A i \in 1..Len(consulta_raw) :
              ~IsVendor(consulta_raw[i].Vendedor)
                  => \E r \in Rows(consulta_base) : r.Folio = i
        /\ \A r \in Rows(consulta_base) :
              /\ r.Jefe_directo # NaN
              /\ Strip(r.Jefe_directo) # EMPTY
              /\ JoinRows(r) = {} => r.Jefe_directo = ENCUBADORA

\* a salesperson that differs from the roster name in case only and a null
\* salesperson, both retained under 'ENCUBADORA'
W14_UnmatchedEncubadora ==
    /\ Len(consulta_base) = 2
    /\ \E e \in Rows(hoja) : Candidate(e) /\ e.NombreCompleto = T("ANA")
    /\ consulta_base[1].Vendedor = T("ana")
    /\ consulta_base[1].Jefe_directo = ENCUBADORA
    /\ consulta_base[2].Vendedor = NaN
    /\ consulta_base[2].Jefe_directo = ENCUBADORA

----------------------------------------------------------------------------
(* main: date window, selectors and the displayed numbers, over transactions *)
(* of two months, two centres, and with a creation timestamp that parses or  *)
(* not                                                                       *)

MaxTxMain == 2

\* "31/02/2025" is no date
FECHA_MALA == Fecha(31, 2, 2025)

TxMain ==
    [Estatus : {T("Canc Error"), T("Solicitado")},
     Vendedor : {T("ANA")},
     Fecha_creacion : {Fecha(15, 11, 2025), FECHA_MALA}]
    \cup {[Estatus |-> T("Solicitado"), Vendedor |-> T("ANA"),
           Fecha_creacion |-> Fecha(15, 12, 2025)],
          [Estatus |-> T("Entregado"), Vendedor |-> T("LUIS"),
           Fecha_creacion |-> FECHA_MALA],
          [Estatus |-> T("Entregado"), Vendedor |-> T("LUIS"),
           Fecha_creacion |-> Fecha(20, 11, 2025)],
          [Estatus |-> T("Entregado"), Vendedor |-> T("LUIS"),
           Fecha_creacion |-> Fecha(15, 11, 2025),
           Centro |-> T("EXP ATT C CENTER JUAREZ")]}

\* the dates of the two date inputs
FechasMain == {[y |-> 2025, m |-> 11, d |-> 1], [y |-> 2025, m |-> 11, d |-> 20],
               [y |-> 2025, m |-> 12, d |-> 31]}

InitMain ==
    /\ hoja_raw \in {<< >>, <<Emp(T("ANA"), T("SUP1"), T("ASESOR TELEFONICO 7500"))>>}
    /\ consulta_raw \in {WithFolio(t) : t \in Tables(TxMain, MaxTxMain)}
    /\ ref_date = [y |-> 2025, m |-> 11, d |-> 30]
    /\ NotStarted

\* main runs with any dates and any offered selection
MainRun ==
    \E fecha_ini, fecha_fin \in FechasMain :
      \E centro_sel \in {ALL, T("CC2"), T("CC JV")} :
        \E supervisor_sel \in {ALL, T("SUP1"), ENCUBADORA} :
          \E mes_sel \in {ALL, T("November"), T("December")} :
            \E ejecutivo_sel \in {ALL, T("ANA"), T("LUIS")} :
              Main(fecha_ini, fecha_fin, centro_sel, supervisor_sel, mes_sel,
                   ejecutivo_sel)

NextMain == LoadHoja1 \/ TransformConsulta1 \/ MainRun

SpecMain == InitMain /\ [][NextMain]_vars

\* the rows of df whose raw status is not 'Canc Error'
NoCancError(df) == {i \in 1..Len(df) : RawOf(df[i]).Estatus # T("Canc Error")}

SinFiltros ==
    /\ filtros.centro_sel = ALL
    /\ filtros.supervisor_sel = ALL
    /\ filtros.mes_sel = ALL
    /\ filtros.ejecutivo_sel = ALL

\* C19: a transaction whose creation timestamp did not parse is, for any date
\* range, a row of the table the KPI counts of main are computed on
C19_NaTRowInKpis ==
    (pc = "main" /\ SinFiltros) =>
        \A r \in Rows(consulta_base) :
            r.Fecha_creacion = NaT => \E q \in Rows(vista.df) : q.Folio = r.Folio

----------------------------------------------------------------------------
(* Column normaliser, origin classifier and calendar fields: text columns   *)
(* with surrounding whitespace, blank, "nan" and null values; centre names  *)
(* with one marker, both or none; timestamps that parse or not              *)

MaxTxColumnas == 2

\* the row every variant departs from
TX_BASE == [Estatus |-> T("Entregado"), Vendedor |-> T("ANA"),
            Fecha_creacion |-> FechaHora(15, 11, 2025, 9)]

\* the row r with the value v in column c
With(r, c, v) == [k \in DOMAIN r \cup {c} |-> IF k = c THEN v ELSE r[k]]

ClientesColumnas == {<<SP, "CLIENTE", SP>>, <<SP>>, EMPTY, T("nan"), NaN}

VentasColumnas == {<<SP, "SALE123">>, EMPTY}

CentrosColumnas == {NaN, T("EXP ATT C CENTER JUAREZ"), T("EXP ATT C CENTER 20"),
                    T("EXP ATT C CENTER JUAREZ/EXP ATT C CENTER 2"),
                    <<"EXP ATT C CENTER 2", SP, "EXP ATT C CENTER JUAREZ">>,
                    T("EXP ATT C CENTER MTY"), T("EXP ATT C CENTER PUE MEX")}

\* 29/12/2025 is in ISO week 2026-W01, 1/1/2027 in 2026-W53, 2/1/2022 in 2021-W52
FechasColumnas == {FECHA_MALA, FechaHora(15, 11, 2025, 24), Fecha(29, 12, 2025),
                   Fecha(1, 1, 2027), Fecha(2, 1, 2022)}

TxColumnas ==
    {TX_BASE}
    \cup {With(TX_BASE, "Cliente", v) : v \in ClientesColumnas}
    \cup {With(TX_BASE, "Venta", v) : v \in VentasColumnas}
    \cup {With(TX_BASE, "Centro", v) : v \in CentrosColumnas}
    \cup {With(TX_BASE, "Fecha_creacion", v) : v \in FechasColumnas}

EmpColumnas == {Emp(n, T("SUP1"), T("ASESOR TELEFONICO 7500")) :
                  n \in {T("ANA"), <<SP, "ANA", SP>>, <<SP>>}}

InitColumnas ==
    /\ hoja_raw \in {<< >>} \cup {<<e>> : e \in EmpColumnas}
    /\ consulta_raw \in {WithFolio(t) : t \in Tables(TxColumnas, MaxTxColumnas)}
    /\ ref_date = [y |-> 2025, m |-> 11, d |-> 30]
    /\ NotStarted

SpecColumnas == InitColumnas /\ [][NextStatus]_vars

\* the normalisation C16 states: trimmed, and null when null, empty after
\* trimming, "nan" or "None"
Normalizado(v) ==
    IF v = NaN \/ Strip(v) \in {EMPTY, T("nan"), T("None")} THEN NaN ELSE Strip(v)

\* C16: after normalisation every text column of the roster and of the
\* transactions (Centro, Estatus, Back Office, Vendedor, Cliente, Venta) holds
\* the trimmed value, or the null marker for 'nan', 'None' and a value that is
\* empty after trimming
C16_TextoNormalizado ==
    /\ \A e \in Rows(hoja) :
          /\ e.NombreCompleto = Normalizado(hoja_raw[e.index].NombreCompleto)
          /\ e.Puesto = Normalizado(hoja_raw[e.index].Puesto)
    /\ \A r \in Rows(consulta_base) :
          \A c \in TEXT_COLS \cup {"Venta"} : r[c] = Normalizado(RawOf(r)[c])

\* C17: the origin code is 'CC2' when the centre name contains the centre 2
\* marker, even with the Juarez marker; else 'CC JV' when it contains the Juarez
\* marker; else null
C17_OrigenPrimeraCoincidencia ==
    \A r \in Rows(consulta_base) :
        r.Centro_Original =
            IF Contains(r.Centro, CC2_MARKER) THEN T("CC2")
            ELSE IF Contains(r.Centro, JUAREZ_MARKER) THEN T("CC JV")
            ELSE NaN

\* C18: when the creation timestamp did not parse, every calendar field of the
\* row is null
C18_CalendarioNulo ==
    \A r \in Rows(consulta_base) :
        r.Fecha_creacion = NaT =>
            /\ r.Fecha = NaT
            /\ r.Hora = NA_NUM
            /\ r.Anio = NA_NUM
            /\ r.MesNum = NA_NUM
            /\ r.Mes = NaN
            /\ r.AnioMes = NaN
            /\ r.Dia = NA_NUM
            /\ r.Nombre_Dia = NaN
            /\ r.Anio_Semana = NaN

----------------------------------------------------------------------------
(* Schema: transaction tables that lack one column *)

MaxTxEsquema == 2

TxEsquema == [Estatus : {T("Solicitado"), T("Entregado")},
              Venta : {NaN, T("SALE123")},
              Vendedor : {T("ANA")},
              Fecha_creacion : {Fecha(15, 11, 2025)}]

\* df.drop(columns=[c])
SinColumna(df, c) == [i \in 1..Len(df) |-> [k \in DOMAIN df[i] \ {c} |-> df[i][k]]]

\* the whole table, or the table without one of its columns other than Folio
InitEsquema ==
    /\ hoja_raw \in {<< >>, <<Emp(T("ANA"), T("SUP1"), T("ASESOR TELEFONICO 7500"))>>}
    /\ \E t \in Tables(TxEsquema, MaxTxEsquema) :
          consulta_raw \in {WithFolio(t)}
              \cup {SinColumna(WithFolio(t), c) : c \in ALL_COLS \ {"Folio"}}
    /\ ref_date = [y |-> 2025, m |-> 11, d |-> 30]
    /\ NotStarted

SpecEsquema == InitEsquema /\ [][NextStatus]_vars

\* C20: on a transaction table without the Estatus column transform_consulta1
\* ends in an error and returns no classified table
C20_SinEstatusFalla ==
    ("Estatus" \notin Columns(consulta_raw) /\ pc \notin {"start", "hoja"})
        => (pc = "KeyError" /\ consulta_base = << >>)

----------------------------------------------------------------------------
(* Status Classifier on statuses outside the enumeration of the query *)

MaxTxEstatus == 2

EstatusFuera == {NaN, EMPTY, T("Cancelado"), T("entregado"), T("EN ENTREGA")}

TxEstatus == [Estatus : EstatusFuera \cup {T("Entregado"), <<SP, "Solicitado">>},
              Venta : VentasStatus,
              Vendedor : {T("ANA")},
              Fecha_creacion : {Fecha(15, 11, 2025)}]

InitEstatus ==
    /\ hoja_raw \in {<< >>, <<Emp(T("ANA"), T("SUP1"), T("ASESOR TELEFONICO 7500"))>>}
    /\ consulta_raw \in {WithFolio(t) : t \in Tables(TxEstatus, MaxTxEstatus)}
    /\ ref_date = [y |-> 2025, m |-> 11, d |-> 30]
    /\ NotStarted

SpecEstatus == InitEstatus /\ [][NextStatus]_vars

\* a raw status that is null or, trimmed, none of the six values of the query
FueraDeEnumeracion(v) == v = NaN \/ Strip(v) \notin ESTATUS_SQL

\* C21: a transaction whose raw status is null or outside the six values is
\* classified, and its Status is 'Entregado' whatever its sale reference
C21_EstatusDesconocido ==
    /\ pc # "KeyError"
    /\ Transformed => Len(consulta_base) = Len(consulta_raw)
    /\ \A r \in Rows(consulta_base) :
          FueraDeEnumeracion(RawOf(r).Estatus) => r.Status = ENTREGADO

\* a null status with a null sale reference and an unknown status with a sale
\* reference, both classified 'Entregado'
W21_EstatusDesconocido ==
    /\ Len(consulta_base) = 2
    /\ RawOf(consulta_base[1]).Estatus = NaN
    /\ RawOf(consulta_base[1]).Venta = NaN
    /\ consulta_base[1].Status = ENTREGADO
    /\ RawOf(consulta_base[2]).Estatus = T("Cancelado")
    /\ RawOf(consulta_base[2]).Venta = T("SALE123")
    /\ consulta_base[2].Status = ENTREGADO

----------------------------------------------------------------------------
(* the validation count against the 'ET Entregado sin venta' flag *)

\* the table with the flag columns of the Detalle General tab
ConFlags(df) == [i \in 1..Len(df) |-> flags(df[i])]

\* C27: over one classified table the 'delivered without sale' validation
\* count equals the sum of the 'ET Entregado sin venta' flag
C27_ValidacionIgualFlag ==
    Transformed =>
        kpi_validacion_pbi_all(consulta_base)
            = FlagSum(ConFlags(consulta_base), "flag_ET_EntregadoSinVenta")

----------------------------------------------------------------------------
(* the ISO year-week key *)

\* the ISO year and week of the dates of FechasColumnas and TX_BASE, from the
\* ISO 8601 calendar: 15 Nov 2025 is a Saturday of week 46; 29 Dec 2025 is the
\* Monday of the week of Thursday 1 Jan 2026; 1 Jan 2027 is the Friday of the
\* week of Thursday 31 Dec 2026; 2 Jan 2022 is the Sunday of the week of
\* Thursday 30 Dec 2021
SemanaISO(f) ==
    CASE f = [y |-> 2025, m |-> 11, d |-> 15] -> [year |-> "2025", week |-> <<"46">>]
      [] f = [y |-> 2025, m |-> 12, d |-> 29] -> [year |-> "2026", week |-> <<"0", "1">>]
      [] f = [y |-> 2027, m |-> 1, d |-> 1] -> [year |-> "2026", week |-> <<"53">>]
      [] f = [y |-> 2022, m |-> 1, d |-> 2] -> [year |-> "2021", week |-> <<"52">>]

\* C28 as stated: the key of a row with a valid creation timestamp is the ISO
\* year, a hyphen and the two-digit ISO week
C28_ClaveSinW ==
    \A r \in Rows(consulta_base) :
        r.Fecha_creacion # NaT =>
            r.Anio_Semana = <<SemanaISO(r.Fecha).year, "-">> \o SemanaISO(r.Fecha).week

\* C28: the key of a row with a valid creation timestamp is the ISO year, the
\* text '-W' and the two-digit ISO week; the year is the ISO year, not the
\* calendar year of the date
C28_ClaveAnioSemana ==
    \A r \in Rows(consulta_base) :
        r.Fecha_creacion # NaT =>
            r.Anio_Semana = <<SemanaISO(r.Fecha).year, "-W">> \o SemanaISO(r.Fecha).week

\* 2 January 2022 keyed under ISO year 2021 and 29 December 2025 under 2026
W28_ClaveAnioSemana ==
    /\ Len(consulta_base) = 2
    /\ consulta_base[1].Fecha = [y |-> 2022, m |-> 1, d |-> 2]
    /\ consulta_base[1].Anio_Semana = <<"2021", "-W", "52">>
    /\ consulta_base[2].Fecha = [y |-> 2025, m |-> 12, d |-> 29]
    /\ consulta_base[2].Anio_Semana = <<"2026", "-W", "0", "1">>

----------------------------------------------------------------------------
(* the No-Activity table main displays *)

\* the names of the displayed No-Activity table
SinvFilNames == {vista.sinv_fil[i].NombreCompleto : i \in 1..Len(vista.sinv_fil)}

\* C26: after a run of main no eligible employee with a qualifying transaction
\* in the calendar month of fecha_fin is in the displayed No-Activity table
C26_ActivoNoListado ==
    pc = "main" => SinvFilNames \cap WithActivity = {}

----------------------------------------------------------------------------
(* the KPI reducers on tables without rows *)

\* C22: every KPI reducer gives 0 on a table without rows - the six counts of
\* the Resumen tab on an empty df, the No-Activity total on an empty table, the
\* validation count on an empty classified table - and the classified table
\* the reducers read is still the one the load produced
C22_KpiTablaVacia ==
    pc = "main" =>
        /\ vista.df = << >> =>
              /\ kpi.activadas = 0 /\ kpi.back = 0 /\ kpi.en_entrega = 0
              /\ kpi.en_transito = 0 /\ kpi.preparacion = 0 /\ kpi.solicitados = 0
        /\ vista.sinv_fil = << >> => kpi.total_sinventa = 0
        /\ consulta_base = << >> => kpi.validacion_pbi = 0
        /\ consulta_base = transform_consulta1(consulta_raw, hoja)

\* a date window that holds no transaction of a loaded two-row table and a
\* roster without candidates: every count is 0
W22_KpiTablaVacia ==
    /\ pc = "main"
    /\ Len(consulta_base) = 2
    /\ vista.df = << >>
    /\ vista.sinv_fil = << >>
    /\ kpi.activadas = 0 /\ kpi.en_transito = 0 /\ kpi.total_sinventa = 0
    /\ kpi.validacion_pbi = 0

----------------------------------------------------------------------------
(* the inputs of the pipeline steps *)

\* C25: the step of transform_consulta1 leaves the raw transaction table and
\* the roster unchanged, and the step of build_sin_venta leaves the roster and
\* the classified transaction table unchanged
C25_EntradasIntactas ==
    [][/\ pc = "hoja" => (consulta_raw' = consulta_raw /\ hoja' = hoja)
       /\ pc = "consulta" => (hoja' = hoja /\ consulta_base' = consulta_base)]_vars

\* both steps taken on a roster with a row build_sin_venta filters out and a
\* raw table transform_consulta1 derives columns from: the tables given are
\* still the ones loaded
W25_EntradasIntactas ==
    /\ pc = "sinventa"
    /\ hoja = load_hoja1(hoja_raw)
    /\ Len(empleados_join(hoja)) < Len(hoja)
    /\ sinventa # << >>
    /\ Len(consulta_raw) > 0
    /\ consulta_base = transform_consulta1(consulta_raw, hoja)

----------------------------------------------------------------------------
(* The session: runs of main with the refresh button, the date inputs and   *)
(* the selectors, over a database whose content changes between runs and a  *)
(* st.cache_data cache that other sessions share                            *)

MaxTxSesion == 1

HojasSesion == {<< >>, <<Emp(T("ANA"), T("SUP1"), T("ASESOR TELEFONICO 7500"))>>}

TxSesion == {[Estatus |-> T("Entregado"), Vendedor |-> T("ANA"),
              Fecha_creacion |-> Fecha(15, 11, 2025)]}

\* what the transaction query can return: a table of TxSesion rows, or a
\* one-row table without the Centro column
ConsultasSesion ==
    {WithFolio(t) : t \in Tables(TxSesion, MaxTxSesion)}
    \cup {SinColumna(WithFolio(<<t>>), "Centro") : t \in TxSesion}

FechasSesion == {[y |-> 2025, m |-> 11, d |-> 1], [y |-> 2025, m |-> 11, d |-> 30]}

\* st.cache_data after clear(): no entry for load_hoja1, none for load_consulta1
CACHE_VACIO == [hoja_ok |-> FALSE, hoja |-> << >>,
                consulta_ok |-> FALSE, consulta |-> << >>]

\* load_hoja1() under st.cache_data: the cached roster, else the roster read
\* from the database now
hoja_cargada(c) == IF c.hoja_ok THEN c.hoja ELSE load_hoja1(hoja_raw)

\* load_consulta1(PBI_START, PBI_END) under st.cache_data
consulta_cargada(c) == IF c.consulta_ok THEN c.consulta ELSE consulta_raw

\* the cache after both loaders have returned
cache_lleno(c) == [hoja_ok |-> TRUE, hoja |-> hoja_cargada(c),
                   consulta_ok |-> TRUE, consulta |-> consulta_cargada(c)]

\* the held dataset whose transactions are joined against no roster
base_data_sin_roster(h, raw) ==
    LET cb == transform_consulta1(raw, << >>)
    IN [hoja |-> h, consulta_base |-> cb,
        validacion_pbi |-> kpi_validacion_pbi_all(cb)]

\* the dictionary main stores in st.session_state["base_data"]
base_data_de(h, raw) ==
    LET cb == transform_consulta1(raw, h)
    IN [hoja |-> h, consulta_base |-> cb,
        validacion_pbi |-> kpi_validacion_pbi_all(cb)]

\* the test of the load block taken as true whatever the session holds
base_data_is_None_siempre(bd) == TRUE

\* st.session_state["base_data"] is None
base_data_is_None(bd) == bd = << >>

\* the positions of a session between two runs of the script
PcSesion == {"sesion", "main", "error_fechas", "actualizado", "error_sql", "KeyError"}

\* the page of a run that ended before the date-window filter: no table, no
\* KPI, no local left
SinVista ==
    /\ vista' = << >>
    /\ kpi' = << >>
    /\ hoja' = << >>
    /\ consulta_base' = << >>
    /\ sinventa' = << >>

\* the module has run once: the session holds no dataset; the cache is empty
InitSesion ==
    /\ hoja_raw \in HojasSesion
    /\ consulta_raw \in ConsultasSesion
    /\ ref_date = [y |-> 2025, m |-> 11, d |-> 30]
    /\ hoja = << >>
    /\ consulta_base = << >>
    /\ sinventa = << >>
    /\ filtros = << >>
    /\ vista = << >>
    /\ kpi = << >>
    /\ base_data = << >>
    /\ cache = CACHE_VACIO
    /\ origen = << >>
    /\ bo_in = << >>
    /\ bo_out = << >>
    /\ pc = "sesion"

\* the refresh button: both caches cleared, the held dataset dropped, rerun
Actualizar ==
    /\ pc \in PcSesion
    /\ cache' = CACHE_VACIO
    /\ base_data' = << >>
    /\ origen' = << >>
    /\ SinVista
    /\ pc' = "actualizado"
    /\ UNCHANGED <<hoja_raw, consulta_raw, ref_date, filtros, bo_in, bo_out>>

\* the run that loads although fecha_ini is after fecha_fin
MainFechasInvalidas_tras_carga(fecha_ini, fecha_fin) ==
    /\ pc \in PcSesion
    /\ ~DateLE(fecha_ini, fecha_fin)
    /\ base_data_is_None(base_data)
    /\ ~RaisesKeyError(consulta_cargada(cache))
    /\ cache' = cache_lleno(cache)
    /\ base_data' = base_data_de(hoja_cargada(cache), consulta_cargada(cache))
    /\ origen' = [hoja |-> hoja_cargada(cache), consulta_raw |-> consulta_cargada(cache)]
    /\ filtros' = [fecha_ini |-> fecha_ini, fecha_fin |-> fecha_fin]
    /\ SinVista
    /\ pc' = "error_fechas"
    /\ UNCHANGED <<hoja_raw, consulta_raw, ref_date, bo_in, bo_out>>

\* a run with fecha_ini after fecha_fin: the error in the sidebar, then return
MainFechasInvalidas(fecha_ini, fecha_fin) ==
    /\ pc \in PcSesion
    /\ ~DateLE(fecha_ini, fecha_fin)
    /\ filtros' = [fecha_ini |-> fecha_ini, fecha_fin |-> fecha_fin]
    /\ SinVista
    /\ pc' = "error_fechas"
    /\ UNCHANGED <<hoja_raw, consulta_raw, ref_date, base_data, cache, origen,
                   bo_in, bo_out>>

\* a run while the session holds a dataset: no load, the page from the held
\* dataset
MainEnSesion(fecha_ini, fecha_fin, centro_sel, supervisor_sel, mes_sel, ejecutivo_sel) ==
    /\ pc \in PcSesion
    /\ DateLE(fecha_ini, fecha_fin)
    /\ ~base_data_is_None(base_data)
    /\ hoja' = base_data.hoja
    /\ consulta_base' = base_data.consulta_base
    /\ Vista(base_data.hoja, base_data.consulta_base, base_data.validacion_pbi,
             fecha_ini, fecha_fin, centro_sel, supervisor_sel, mes_sel,
             ejecutivo_sel)
    /\ pc' = "main"
    /\ UNCHANGED <<hoja_raw, consulta_raw, base_data, cache, origen, bo_in, bo_out>>

\* a run while the session holds no dataset and both loaders return: the load
\* block, then the page; a KeyError of transform_consulta1 ends the run with
\* both loader results cached and nothing stored
MainCarga(fecha_ini, fecha_fin, centro_sel, supervisor_sel, mes_sel, ejecutivo_sel) ==
    /\ pc \in PcSesion
    /\ DateLE(fecha_ini, fecha_fin)
    /\ base_data_is_None(base_data)
    /\ cache' = cache_lleno(cache)
    /\ LET h == hoja_cargada(cache)
           raw == consulta_cargada(cache)
           bd == base_data_de(h, raw)
       IN IF RaisesKeyError(raw)
          THEN /\ SinVista
               /\ filtros' = [fecha_ini |-> fecha_ini, fecha_fin |-> fecha_fin]
               /\ pc' = "KeyError"
               /\ UNCHANGED <<base_data, origen, ref_date>>
          ELSE /\ base_data' = bd
               /\ origen' = [hoja |-> h, consulta_raw |-> raw]
               /\ hoja' = bd.hoja
               /\ consulta_base' = bd.consulta_base
               /\ Vista(bd.hoja, bd.consulta_base, bd.validacion_pbi, fecha_ini,
                        fecha_fin, centro_sel, supervisor_sel, mes_sel,
                        ejecutivo_sel)
               /\ pc' = "main"
    /\ UNCHANGED <<hoja_raw, consulta_raw, bo_in, bo_out>>

\* a run while the session holds no dataset and a query fails in pd.read_sql:
\* in load_hoja1 nothing is cached; in load_consulta1 the roster already is
MainCargaFalla(fecha_ini, fecha_fin, donde) ==
    /\ pc \in PcSesion
    /\ DateLE(fecha_ini, fecha_fin)
    /\ base_data_is_None(base_data)
    /\ \/ /\ donde = "load_hoja1"
          /\ ~cache.hoja_ok
          /\ cache' = cache
       \/ /\ donde = "load_consulta1"
          /\ ~cache.consulta_ok
          /\ cache' = [cache EXCEPT !.hoja_ok = TRUE, !.hoja = hoja_cargada(cache)]
    /\ filtros' = [fecha_ini |-> fecha_ini, fecha_fin |-> fecha_fin]
    /\ SinVista
    /\ pc' = "error_sql"
    /\ UNCHANGED <<hoja_raw, consulta_raw, ref_date, base_data, origen, bo_in, bo_out>>

\* the database changes between two runs
CambiaBD ==
    /\ pc \in PcSesion
    /\ hoja_raw' \in HojasSesion
    /\ consulta_raw' \in ConsultasSesion
    /\ <<hoja_raw', consulta_raw'>> # <<hoja_raw, consulta_raw>>
    /\ UNCHANGED <<ref_date, hoja, consulta_base, sinventa, filtros, vista, kpi,
                   otros, pc>>

\* another session loads: st.cache_data is shared by the sessions of the server
OtraSesionCarga ==
    /\ pc \in PcSesion
    /\ cache # cache_lleno(cache)
    /\ cache' = cache_lleno(cache)
    /\ UNCHANGED <<hoja_raw, consulta_raw, ref_date, hoja, consulta_base, sinventa,
                   filtros, vista, kpi, base_data, origen, bo_in, bo_out, pc>>

\* another session presses the refresh button
OtraSesionActualiza ==
    /\ pc \in PcSesion
    /\ cache # CACHE_VACIO
    /\ cache' = CACHE_VACIO
    /\ UNCHANGED <<hoja_raw, consulta_raw, ref_date, hoja, consulta_base, sinventa,
                   filtros, vista, kpi, base_data, origen, bo_in, bo_out, pc>>

\* the selections of a run with dates in order
MainSesion(fecha_ini, fecha_fin) ==
    \E supervisor_sel \in {ALL, T("SUP1")} :
      \/ MainEnSesion(fecha_ini, fecha_fin, ALL, supervisor_sel, ALL, ALL)
      \/ MainCarga(fecha_ini, fecha_fin, ALL, supervisor_sel, ALL, ALL)

NextSesion ==
    \/ Actualizar
    \/ \E fecha_ini, fecha_fin \in FechasSesion :
          \/ MainFechasInvalidas(fecha_ini, fecha_fin)
          \/ MainSesion(fecha_ini, fecha_fin)
          \/ \E donde \in {"load_hoja1", "load_consulta1"} :
                MainCargaFalla(fecha_ini, fecha_fin, donde)
    \/ CambiaBD
    \/ OtraSesionCarga
    \/ OtraSesionActualiza

SpecSesion == InitSesion /\ [][NextSesion]_vars

C24_BaseDataFija ==
    [][(base_data # << >> /\ pc' # "actualizado") => base_data' = base_data]_vars

\* a run with a supervisor selected on a held dataset, while the database has
\* changed and the shared cache was cleared: a reload would give other data
W24_BaseDataFija ==
    /\ pc = "main"
    /\ base_data # << >>
    /\ filtros.supervisor_sel = T("SUP1")
    /\ filtros.fecha_ini = [y |-> 2025, m |-> 11, d |-> 1]
    /\ cache = CACHE_VACIO
    /\ ~RaisesKeyError(consulta_raw)
    /\ base_data # base_data_de(load_hoja1(hoja_raw), consulta_raw)
    /\ vista.df # << >>

\* C29: a run with fecha_ini after fecha_fin ends at the date error with the
\* held dataset and the cache as they were and with no table and no KPI
C29_FechasInvalidas ==
    [][(pc' = "error_fechas" /\ (pc # "error_fechas" \/ filtros' # filtros))
          => /\ ~DateLE(filtros'.fecha_ini, filtros'.fecha_fin)
             /\ base_data' = base_data
             /\ cache' = cache
             /\ vista' = << >>
             /\ kpi' = << >>]_vars

\* the first run of a session with the dates out of order: nothing held,
\* nothing cached, nothing shown
W29_FechasInvalidas ==
    /\ pc = "error_fechas"
    /\ filtros.fecha_ini = [y |-> 2025, m |-> 11, d |-> 30]
    /\ filtros.fecha_fin = [y |-> 2025, m |-> 11, d |-> 1]
    /\ base_data = << >>
    /\ cache = CACHE_VACIO
    /\ vista = << >>
    /\ kpi = << >>

----------------------------------------------------------------------------
(* parse_backoffice_datetime: the parser of the Back Office column.  A value *)
(* of the column is null, blank, a text without a date, the text             *)
(* "a/b/y h:00", or such a text inside other words                           *)

MaxSerieBO == 2

BO(k, a, b, y, h) == [k |-> k, a |-> a, b |-> b, y |-> y, h |-> h]

\* the null of the cleaned series
BO_NULO == BO("nulo", 0, 0, 0, 0)

\* no date given (None) for window_start or window_end
SIN_FECHA == [y |-> 0, m |-> 0, d |-> 0]

\* astype(str).str.strip(), the replace of "nan", "None" and "NaT" by "" and
\* the where that makes "" null
bo_limpia(v) == IF v.k \in {"nulo", "vacio"} THEN BO_NULO ELSE v

\* str.extract(pat): the date-with-time inside the text when there is one,
\* else the text as it is
bo_extrae(v) == IF v.k = "envuelta" THEN [v EXCEPT !.k = "fecha"] ELSE v

\* the text "a/b/y h:00" read with a as the day
bo_dm(v) ==
    IF v.k = "fecha" /\ v.h \in 0..23 /\ ValidDate(v.y, v.b, v.a)
    THEN [y |-> v.y, m |-> v.b, d |-> v.a, h |-> v.h] ELSE NaT

\* the text "a/b/y h:00" read with a as the month
bo_md(v) ==
    IF v.k = "fecha" /\ v.h \in 0..23 /\ ValidDate(v.y, v.a, v.b)
    THEN [y |-> v.y, m |-> v.a, d |-> v.b, h |-> v.h] ELSE NaT

\* one element parsed by dateutil: the order asked for, else the other order
bo_dateutil(v, dayfirst) ==
    IF dayfirst THEN (IF bo_dm(v) # NaT THEN bo_dm(v) ELSE bo_md(v))
    ELSE (IF bo_md(v) # NaT THEN bo_md(v) ELSE bo_dm(v))

\* the format inferred from the first non-null element: the order in which
\* dateutil reads it, none when it does not parse
bo_formato(s2, dayfirst) ==
    LET I == {i \in 1..Len(s2) : s2[i] # BO_NULO}
    IN IF I = {} THEN "ninguno"
       ELSE LET v == s2[Min(I)]
            IN IF bo_dateutil(v, dayfirst) = NaT THEN "ninguno"
               ELSE IF bo_dateutil(v, dayfirst) = bo_dm(v) /\ (dayfirst \/ bo_md(v) = NaT)
                    THEN "dm" ELSE "md"

\* pd.to_datetime(s2, errors="coerce", dayfirst=dayfirst).  The result
\* depends on the pandas installed: every element parsed on its own by
\* dateutil (modo "dateutil"), or one format inferred from the first non-null
\* element and applied strictly to every element (modo "formato")
bo_to_datetime(s2, dayfirst, modo) ==
    LET f == IF modo = "formato" THEN bo_formato(s2, dayfirst) ELSE "ninguno"
    IN [i \in 1..Len(s2) |->
          IF f = "dm" THEN bo_dm(s2[i])
          ELSE IF f = "md" THEN bo_md(s2[i])
          ELSE bo_dateutil(s2[i], dayfirst)]

\* Series.between(w0, w1) with w0 the start of window_start and w1 the last
\* microsecond of window_end; False on NaT
bo_between(ts, window_start, window_end) ==
    /\ ts # NaT
    /\ DateLE(window_start, dt_date(ts))
    /\ DateLE(dt_date(ts), window_end)

\* parse_backoffice_datetime without its last where
parse_backoffice_datetime_sin_respaldo(series, window_start, window_end, modo) ==
    LET s2 == [i \in 1..Len(series) |-> bo_extrae(bo_limpia(series[i]))]
        dt_dayfirst == bo_to_datetime(s2, TRUE, modo)
        dt_monthfirst == bo_to_datetime(s2, FALSE, modo)
        in1(i) == bo_between(dt_dayfirst[i], window_start, window_end)
        in2(i) == bo_between(dt_monthfirst[i], window_start, window_end)
    IN IF window_start = SIN_FECHA \/ window_end = SIN_FECHA THEN dt_dayfirst
       ELSE [i \in 1..Len(series) |->
               IF in2(i) /\ ~in1(i) THEN dt_monthfirst[i] ELSE dt_dayfirst[i]]

parse_backoffice_datetime(series, window_start, window_end, modo) ==
    LET s2 == [i \in 1..Len(series) |-> bo_extrae(bo_limpia(series[i]))]
        dt_dayfirst == bo_to_datetime(s2, TRUE, modo)
        dt_monthfirst == bo_to_datetime(s2, FALSE, modo)
        in1(i) == bo_between(dt_dayfirst[i], window_start, window_end)
        in2(i) == bo_between(dt_monthfirst[i], window_start, window_end)
        out1 == [i \in 1..Len(series) |->
                   IF in2(i) /\ ~in1(i) THEN dt_monthfirst[i] ELSE dt_dayfirst[i]]
    IN IF window_start = SIN_FECHA \/ window_end = SIN_FECHA THEN dt_dayfirst
       ELSE [i \in 1..Len(series) |->
               IF dt_dayfirst[i] = NaT /\ dt_monthfirst[i] # NaT
               THEN dt_monthfirst[i] ELSE out1[i]]

\* 05/11 and 11/05 read both ways, 15/11 only day first, 12/20 only month
\* first, 03/04 outside November both ways, 31/02 no date
ValoresBO ==
    {BO_NULO, BO("vacio", 0, 0, 0, 0), BO("basura", 0, 0, 0, 0),
     BO("fecha", 5, 11, 2025, 10), BO("fecha", 11, 5, 2025, 10),
     BO("fecha", 15, 11, 2025, 9), BO("fecha", 12, 20, 2025, 9),
     BO("fecha", 3, 4, 2025, 9), BO("fecha", 31, 2, 2025, 9),
     BO("envuelta", 11, 5, 2025, 10)}

NOV_1 == [y |-> 2025, m |-> 11, d |-> 1]
NOV_30 == [y |-> 2025, m |-> 11, d |-> 30]

VentanasBO == {[window_start |-> NOV_1, window_end |-> NOV_30],
               [window_start |-> NOV_1, window_end |-> SIN_FECHA],
               [window_start |-> SIN_FECHA, window_end |-> SIN_FECHA]}

InitBackOffice ==
    /\ hoja_raw = << >>
    /\ consulta_raw = << >>
    /\ ref_date = NOV_30
    /\ hoja = << >>
    /\ consulta_base = << >>
    /\ sinventa = << >>
    /\ filtros = << >>
    /\ vista = << >>
    /\ kpi = << >>
    /\ base_data = << >>
    /\ cache = << >>
    /\ origen = << >>
    /\ bo_in \in [series : Tables(ValoresBO, MaxSerieBO), ventana : VentanasBO,
                   modo : {"dateutil", "formato"}]
    /\ bo_out = << >>
    /\ pc = "start"

ParseBackofficeDatetime ==
    /\ pc = "start"
    /\ bo_out' = parse_backoffice_datetime(bo_in.series, bo_in.ventana.window_start,
                                           bo_in.ventana.window_end, bo_in.modo)
    /\ pc' = "bo_dt"
    /\ UNCHANGED <<hoja_raw, consulta_raw, ref_date, hoja, consulta_base, sinventa,
                   filtros, vista, kpi, base_data, cache, origen, bo_in>>

SpecBackOffice == InitBackOffice /\ [][ParseBackofficeDatetime]_vars

\* the series pd.to_datetime is given
BoS2 == [i \in 1..Len(bo_in.series) |-> bo_extrae(bo_limpia(bo_in.series[i]))]

\* the day-first and the month-first parse of the whole series
BoDayFirst == bo_to_datetime(BoS2, TRUE, bo_in.modo)
BoMonthFirst == bo_to_datetime(BoS2, FALSE, bo_in.modo)

BoConVentana ==
    bo_in.ventana.window_start # SIN_FECHA /\ bo_in.ventana.window_end # SIN_FECHA

BoEnVentana(ts) ==
    bo_between(ts, bo_in.ventana.window_start, bo_in.ventana.window_end)

\* C30: with a window the result is the day-first parse whenever it parsed and
\* it lies inside the window or the month-first parse does not; it is the
\* month-first parse only when that lies inside and the day-first does not, or
\* when the day-first parse failed and the month-first did not; it is null only
\* when both failed.  Without a window the result is the day-first parse
C30_ParseBackOffice ==
    pc = "bo_dt" =>
        /\ Len(bo_out) = Len(bo_in.series)
        /\ ~BoConVentana => bo_out = BoDayFirst
        /\ BoConVentana =>
              \A i \in 1..Len(bo_out) :
                LET D == BoDayFirst[i]
                    M == BoMonthFirst[i]
                IN /\ (D # NaT /\ (BoEnVentana(D) \/ ~BoEnVentana(M))) => bo_out[i] = D
                   /\ bo_out[i] # D =>
                         /\ bo_out[i] = M
                         /\ \/ BoEnVentana(M) /\ ~BoEnVentana(D)
                            \/ D = NaT /\ M # NaT
                   /\ bo_out[i] = NaT => (D = NaT /\ M = NaT)

\* "11/05/2025 10:00" then "12/20/2025 9:00" under the inferred format: the
\* first is 11 May day first and 5 November month first, inside the window;
\* the second fails day first and is 20 December month first, outside it
W30_ParseBackOffice ==
    /\ pc = "bo_dt"
    /\ bo_in.modo = "formato"
    /\ bo_in.series = <<BO("fecha", 11, 5, 2025, 10), BO("fecha", 12, 20, 2025, 9)>>
    /\ bo_in.ventana = [window_start |-> NOV_1, window_end |-> NOV_30]
    /\ BoDayFirst = <<[y |-> 2025, m |-> 5, d |-> 11, h |-> 10], NaT>>
    /\ bo_out = <<[y |-> 2025, m |-> 11, d |-> 5, h |-> 10],
                  [y |-> 2025, m |-> 12, d |-> 20, h |-> 9]>>
====
